---- MODULE Spec2Model ----
(***************************************************************************)
(* terraform-provider-jwk: the per-resource validation tables, the key     *)
(* generators and the key set assembly, as a state machine.                *)
(*                                                                         *)
(* Spec        one key resource (jwk_rsa_key, jwk_ec_key, jwk_oct_key or   *)
(*             jwk_okp_keypair) going through configure -> ValidateConfig  *)
(*             -> Create.                                                  *)
(* SpecKeyset  one jwk_keyset resource going through plan -> Create /      *)
(*             Update.                                                     *)
(* SpecLife    one key resource over its whole life: configure ->          *)
(*             ValidateConfig -> Create, then Read, a changed plan with    *)
(*             ValidateConfig -> Update, and Delete.                       *)
(* SpecImport  one key resource brought in by ImportState, then Read.      *)
(* SpecFrame   one jwk_oct_key and a jwk_keyset built from its json, each  *)
(*             going through its own operations in any interleaving.       *)
(* SpecRoundTrip  a jwk_oct_key created and its json imported again.       *)
(* SpecFunction   one call of the provider function public_key.             *)
(***************************************************************************)
EXTENDS Integers, Sequences, FiniteSets, TLC

VARIABLES
    pc,       \* position of the key resource in its lifecycle
    config,   \* the configuration (plan) of the key resource
    diags,    \* diagnostics of the last handler that ran on the key resource
    state,    \* the stored state of the key resource, NoState when there is none
    importID, \* the ID of the last import request, NoImport when there was none
    fn,       \* the last call of the public_key function, NoCall when there was none
    ksPc,     \* position of the keyset resource in its lifecycle
    ksPlan,   \* the planned `keys` list of the keyset resource
    ksDiags,  \* diagnostics of the last handler that ran on the keyset
    ksState   \* the stored state of the keyset resource

vars == <<pc, config, diags, state, importID, fn, ksPc, ksPlan, ksDiags, ksState>>
keyVars == <<pc, config, diags, state>>
keysetVars == <<ksPc, ksPlan, ksDiags, ksState>>

(***************************************************************************)
(* Bounds                                                                  *)
(***************************************************************************)
\* oct key sizes 8*i for i up to this many bytes are explored
MaxOctBytes == 65
\* longest `keys` list of a keyset
MaxKeys == 3
\* number of distinct outputs of the random source
MaxMaterial == 2

(***************************************************************************)
(* Values of the framework's types                                         *)
(***************************************************************************)
\* a null types.String (attribute not set in the configuration)
Null == "<null>"
\* a member that a JSON object does not have
Absent == "<absent>"
\* a member whose JSON value is not a string (a number, say)
NonString == "<number>"
NoState == [exists |-> FALSE]
NoConfig == [rtype |-> "none"]

\* a key material member (k, n, x, d) of a JWK document: its JSON type and,
\* for a string, the number of base64url characters, whether all of them are
\* of the unpadded URL alphabet, and which random bytes they encode
AbsentMember == [type |-> "absent", chars |-> 0, clean |-> TRUE, bytes |-> 0]
NumberMember == [type |-> "number", chars |-> 0, clean |-> TRUE, bytes |-> 0]

\* a text that does not parse as a JSON object
NotJSON ==
    [ok |-> FALSE, kty |-> Absent, kid |-> Absent, use |-> Absent,
     alg |-> Absent, crv |-> Absent, k |-> AbsentMember, n |-> AbsentMember,
     x |-> AbsentMember, d |-> AbsentMember]
NoImport == NotJSON
\* the value of a computed document attribute the resource does not have
NoDocument == NotJSON
\* no call of the public_key function yet
NoCall ==
    [called |-> FALSE, private_key |-> NotJSON, kid |-> "", error |-> FALSE,
     result |-> NotJSON]

\* base64.RawURLEncoding.EncodeToString of nbytes random bytes rnd
EncodeToString(nbytes, rnd) ==
    [type |-> "string", chars |-> (8 * nbytes + 5) \div 6, clean |-> TRUE,
     bytes |-> rnd]

\* variant: the length of the input counted in characters, not bytes
DecodeString_CharCount(t) ==
    IF ~t.clean \/ t.chars % 4 = 1
    THEN [err |-> TRUE]
    ELSE [err |-> FALSE, nbytes |-> t.chars]

\* base64.RawURLEncoding.DecodeString: an error for a character outside the
\* alphabet (padding included) and for a length of 1 modulo 4
DecodeString(t) ==
    IF ~t.clean \/ t.chars % 4 = 1
    THEN [err |-> TRUE]
    ELSE [err |-> FALSE, nbytes |-> (6 * t.chars) \div 8]

\* types.String.ValueString(): null reads as the empty string
ValueString(s) == IF s = Null THEN "" ELSE s

\* Go integer division and remainder truncate toward zero
GoDiv(a, b) == IF a >= 0 THEN a \div b ELSE -((-a) \div b)
GoMod(a, b) == IF a >= 0 THEN a % b ELSE -((-a) % b)

Err(s) == [severity |-> "error", summary |-> s]
Warn(s) == [severity |-> "warning", summary |-> s]

\* diag.Diagnostics.HasError
HasError(ds) == \E i \in 1..Len(ds) : ds[i].severity = "error"
HasWarning(ds) == \E i \in 1..Len(ds) : ds[i].severity = "warning"
HasSummary(ds, sev, s) ==
    \E i \in 1..Len(ds) : ds[i].severity = sev /\ ds[i].summary = s

(***************************************************************************)
(* Static tables                                                           *)
(***************************************************************************)
\* variant: the empty string taken for a use
validUses_WithEmpty == <<"sig", "enc", "">>

validUses == <<"sig", "enc">>

\* variant: the table without the RSA-PSS algorithms
RSASignatureAlgorithms_NoPSS ==
    [a \in {"RS256", "RS384", "RS512"} |->
        CASE a = "RS256" -> 2048
          [] a = "RS384" -> 3072
          [] a = "RS512" -> 4096]

RSASignatureAlgorithms ==
    [a \in {"RS256", "RS384", "RS512", "PS256", "PS384", "PS512"} |->
        CASE a \in {"RS256", "PS256"} -> 2048
          [] a \in {"RS384", "PS384"} -> 3072
          [] a \in {"RS512", "PS512"} -> 4096]

\* variant: a signature algorithm copied into the encryption table
RSAEncryptionAlgorithms_WithRS256 ==
    [a \in {"RSA1_5", "RSA-OAEP", "RSA-OAEP-256", "RS256"} |-> 2048]

RSAEncryptionAlgorithms ==
    [a \in {"RSA1_5", "RSA-OAEP", "RSA-OAEP-256"} |-> 2048]

\* variant: ES256 paired with the curve of ES384
ECSigningAlgorithmsToCurves_Shifted ==
    [a \in {"ES256", "ES384", "ES512"} |->
        CASE a = "ES256" -> "P-384"
          [] a = "ES384" -> "P-384"
          [] a = "ES512" -> "P-521"]

\* jwk_ec_key: the curve each signing algorithm requires
ECSigningAlgorithmsToCurves ==
    [a \in {"ES256", "ES384", "ES512"} |->
        CASE a = "ES256" -> "P-256"
          [] a = "ES384" -> "P-384"
          [] a = "ES512" -> "P-521"]

ECSigAlgorithms ==
    [a \in {"ES256", "ES384", "ES512"} |->
        CASE a = "ES256" -> 256
          [] a = "ES384" -> 384
          [] a = "ES512" -> 512]

\* variant: the table without its pre-shared key entry
ECEncAlgorithms_NoPS ==
    [a \in {"ECDH-ES", "ECDH-ES+A128KW", "ECDH-ES+A192KW", "ECDH-ES+A256KW",
             "ECDH-ES+A128GCMKW", "ECDH-ES+A192GCMKW", "ECDH-ES+A256GCMKW"} |->
        CASE a \in {"ECDH-ES", "ECDH-ES+A256KW", "ECDH-ES+A256GCMKW"} -> 256
          [] a \in {"ECDH-ES+A128KW", "ECDH-ES+A128GCMKW"} -> 128
          [] a \in {"ECDH-ES+A192KW", "ECDH-ES+A192GCMKW"} -> 192]

ECEncAlgorithms ==
    [a \in {"ECDH-ES", "ECDH-ES+A128KW", "ECDH-ES+A192KW", "ECDH-ES+A256KW",
             "ECDH-PS", "ECDH-ES+A128GCMKW", "ECDH-ES+A192GCMKW",
             "ECDH-ES+A256GCMKW"} |->
        CASE a \in {"ECDH-ES", "ECDH-ES+A256KW", "ECDH-PS", "ECDH-ES+A256GCMKW"} -> 256
          [] a \in {"ECDH-ES+A128KW", "ECDH-ES+A128GCMKW"} -> 128
          [] a \in {"ECDH-ES+A192KW", "ECDH-ES+A192GCMKW"} -> 192]

validECCurves == <<"P-256", "P-384", "P-521">>

\* jwk_oct_key: minimum key size in bits of each algorithm
OCTSignatureAlgorithms ==
    [a \in {"HS256", "HS384", "HS512", "none"} |->
        CASE a = "HS256" -> 256
          [] a = "HS384" -> 384
          [] a = "HS512" -> 512
          [] a = "none" -> 0]

OCTSEncryptionAlgorithms ==
    [a \in {"A128KW", "A192KW", "A256KW", "dir", "A128GCMKW", "A192GCMKW",
             "A256GCMKW", "PBES2-HS256+A128KW", "PBES2-HS384+A192KW",
             "PBES2-HS512+A256KW"} |->
        CASE a \in {"A128KW", "A128GCMKW"} -> 128
          [] a \in {"A192KW", "A192GCMKW"} -> 192
          [] a \in {"A256KW", "A256GCMKW", "PBES2-HS256+A128KW"} -> 256
          [] a = "PBES2-HS384+A192KW" -> 384
          [] a = "PBES2-HS512+A256KW" -> 512
          [] a = "dir" -> 0]

\* the general security recommendation for symmetric keys, in bits
securityRecommendation == 256

\* variant: a key agreement algorithm among the signature algorithms
OKPSigAlgorithms_WithX25519 == <<"Ed25519", "Ed448", "X25519">>

\* jwk_okp_keypair: the algorithms of each use
OKPSigAlgorithms == <<"Ed25519", "Ed448">>
OKPEncAlgorithms == <<"X25519", "X448">>

\* the RSA key sizes the earlier generator accepted
validRSASizes == {512, 1024, 2048, 3072, 4096}

\* the hard floor of the RSA size check
RSAMinBits == 2048

isValid(value, validValues) ==
    \E i \in 1..Len(validValues) : value = validValues[i]

(***************************************************************************)
(* Schemas: the flags of each attribute                                    *)
(***************************************************************************)
RequiredAttr == [required |-> TRUE, optional |-> FALSE, computed |-> FALSE,
                 sensitive |-> FALSE]
OptionalAttr == [required |-> FALSE, optional |-> TRUE, computed |-> FALSE,
                 sensitive |-> FALSE]
ComputedAttr == [required |-> FALSE, optional |-> FALSE, computed |-> TRUE,
                 sensitive |-> FALSE]
ComputedSensitiveAttr ==
    [required |-> FALSE, optional |-> FALSE, computed |-> TRUE,
     sensitive |-> TRUE]

jwkRSAKeyResource_Schema ==
    [kid |-> RequiredAttr, use |-> RequiredAttr, size |-> RequiredAttr,
     alg |-> OptionalAttr, json |-> ComputedSensitiveAttr]

jwkECKeyResource_Schema ==
    [kid |-> RequiredAttr, use |-> RequiredAttr, crv |-> RequiredAttr,
     alg |-> OptionalAttr, json |-> ComputedSensitiveAttr]

jwkOctKeyResource_Schema ==
    [kid |-> RequiredAttr, use |-> RequiredAttr, size |-> RequiredAttr,
     alg |-> OptionalAttr, json |-> ComputedSensitiveAttr]

jwkOKPKeyResource_Schema ==
    [kid |-> RequiredAttr, use |-> RequiredAttr, alg |-> OptionalAttr,
     private_key |-> ComputedSensitiveAttr, public_key |-> ComputedAttr]

jwkKeysetResource_Schema ==
    [keys |-> RequiredAttr, json |-> ComputedAttr]

(***************************************************************************)
(* Input domains                                                           *)
(***************************************************************************)
RTypes == {"jwk_rsa_key", "jwk_ec_key", "jwk_oct_key", "jwk_okp_keypair"}
Materials == 1..MaxMaterial
KIDs == {"", "k1"}
UseValues == {"sig", "enc", "", "invalid"}
RSAAlgNames ==
    {"RS256", "RS384", "RS512", "PS256", "PS384", "PS512",
     "RSA1_5", "RSA-OAEP", "RSA-OAEP-256"}
ECAlgNames ==
    {"ES256", "ES384", "ES512", "ECDH-ES", "ECDH-ES+A128KW", "ECDH-ES+A192KW",
     "ECDH-ES+A256KW", "ECDH-PS", "ECDH-ES+A128GCMKW", "ECDH-ES+A192GCMKW",
     "ECDH-ES+A256GCMKW"}
OctAlgNames ==
    {"HS256", "HS384", "HS512", "none", "A128KW", "A192KW", "A256KW", "dir",
     "A128GCMKW", "A192GCMKW", "A256GCMKW", "PBES2-HS256+A128KW",
     "PBES2-HS384+A192KW", "PBES2-HS512+A256KW"}
OKPAlgNames == {"Ed25519", "Ed448", "X25519", "X448"}
AlgValues ==
    RSAAlgNames \cup ECAlgNames \cup OctAlgNames \cup OKPAlgNames
        \cup {"", Null, "RS256s"}
CrvValues == {"P-256", "P-384", "P-521", "P-192", ""}
OctSizeValues ==
    {8 * i : i \in (-1)..MaxOctBytes} \cup {-7, 7, 12, 129, 255, 257, 383, 511}
RSASizeValues == {512, 1024, 2047, 2048, 2049, 2500, 3071, 3072, 4095, 4096, 8192}

RSAConfigs ==
    [rtype : {"jwk_rsa_key"}, kid : KIDs, use : UseValues, alg : AlgValues,
     size : RSASizeValues, crv : {""}]

ECConfigs ==
    [rtype : {"jwk_ec_key"}, kid : KIDs, use : UseValues, alg : AlgValues,
     size : {0}, crv : CrvValues]

OctConfigs ==
    [rtype : {"jwk_oct_key"}, kid : KIDs, use : UseValues, alg : AlgValues,
     size : OctSizeValues, crv : {""}]

OKPConfigs ==
    [rtype : {"jwk_okp_keypair"}, kid : KIDs, use : UseValues, alg : AlgValues,
     size : {0}, crv : {""}]

Configs == RSAConfigs \cup ECConfigs \cup OctConfigs \cup OKPConfigs

\* the configurations a resource is taken through its whole life with
LifeAlgs ==
    {Null, "RS256", "RSA-OAEP", "ES256", "ECDH-ES", "HS256", "A128KW", "dir",
     "Ed25519", "X25519"}
LifeSizes == {-8, 0, 128, 256, 2048, 4096}
LifeConfigs ==
    {c \in Configs : /\ c.kid = "k1"
                      /\ c.use \in {"sig", "enc"}
                      /\ c.alg \in LifeAlgs
                      /\ c.size \in LifeSizes
                      /\ c.crv \in {"", "P-256", "P-384"}}

\* the documents handed to `terraform import` as the ID
ImportKTexts ==
    {AbsentMember, NumberMember}
        \cup [type : {"string"}, chars : {0, 5, 22, 43, 86}, clean : BOOLEAN,
              bytes : {1}]
ImportNTexts ==
    {AbsentMember, NumberMember}
        \cup [type : {"string"}, chars : {5, 342, 683}, clean : BOOLEAN,
              bytes : {1}]
\* the arguments public_key is called with: public members carry the bytes
\* 1, secret ones the bytes 2
FunctionTexts(b) ==
    {AbsentMember,
     [type |-> "string", chars |-> 43, clean |-> TRUE, bytes |-> b],
     [type |-> "string", chars |-> 5, clean |-> TRUE, bytes |-> b]}
FunctionDocs ==
    {NotJSON}
        \cup [ok : {TRUE}, kty : {"RSA", "EC", "oct", "OKP", Absent},
              kid : {"k1", Absent}, use : {"sig", Absent},
              alg : {"RS256", Absent}, crv : {"P-256", "Ed25519", Absent},
              k : FunctionTexts(2), n : FunctionTexts(1),
              x : FunctionTexts(1), d : FunctionTexts(2)]
FunctionKIDs == {"", "k1", "k2"}

\* the configurations and import IDs of a key that a keyset is built from
FrameConfigs ==
    [rtype : {"jwk_oct_key"}, kid : {"k1"}, use : {"sig"}, alg : {Null, "HS256"},
     size : {256, 512}, crv : {""}]
FrameImportIDs ==
    [ok : {TRUE}, kty : {"oct"}, kid : {"k1"}, use : {"sig", "invalid"},
     alg : {Absent}, crv : {Absent},
     k : [type : {"string"}, chars : {43, 5}, clean : {TRUE}, bytes : {1}],
     n : {AbsentMember}, x : {AbsentMember}, d : {AbsentMember}]

ImportIDs ==
    {NotJSON}
        \cup [ok : {TRUE}, kty : {"oct", "RSA", "EC", Absent},
              kid : {"k1", Absent, NonString},
              use : {"sig", "enc", "invalid", Absent, NonString},
              alg : {"HS256", Absent, NonString},
              crv : {"P-256", Absent},
              k : ImportKTexts, n : ImportNTexts,
              x : {AbsentMember}, d : {AbsentMember}]

(***************************************************************************)
(* jwk_rsa_key                                                             *)
(***************************************************************************)
\* variant: a size below the recommendation reported as an error
RSASigAlgCheck_ErrorOnSmall(use, alg, bits) ==
    IF alg # "" /\ use = "sig"
    THEN IF alg \notin DOMAIN RSASignatureAlgorithms
         THEN [stop |-> TRUE, ds |-> <<Err("Invalid 'alg' attribute for use: 'sig'")>>]
         ELSE IF bits < RSASignatureAlgorithms[alg]
              THEN [stop |-> TRUE, ds |-> <<Err("Suboptimal RSA key size")>>]
              ELSE [stop |-> FALSE, ds |-> <<>>]
    ELSE [stop |-> FALSE, ds |-> <<>>]

\* the `alg` check for use=sig: [stop, diags]
RSASigAlgCheck(use, alg, bits) ==
    IF alg # "" /\ use = "sig"
    THEN IF alg \notin DOMAIN RSASignatureAlgorithms
         THEN [stop |-> TRUE, ds |-> <<Err("Invalid 'alg' attribute for use: 'sig'")>>]
         ELSE IF bits < RSASignatureAlgorithms[alg]
              THEN [stop |-> FALSE, ds |-> <<Warn("Suboptimal RSA key size")>>]
              ELSE [stop |-> FALSE, ds |-> <<>>]
    ELSE [stop |-> FALSE, ds |-> <<>>]

\* the `alg` check for use=enc: [stop, diags]
RSAEncAlgCheck(use, alg) ==
    IF alg # "" /\ use = "enc"
    THEN IF alg \notin DOMAIN RSAEncryptionAlgorithms
         THEN [stop |-> TRUE, ds |-> <<Err("Invalid 'alg' attribute for use: 'enc'")>>]
         ELSE [stop |-> FALSE, ds |-> <<>>]
    ELSE [stop |-> FALSE, ds |-> <<>>]

\* the warning for a missing `alg`
RSAMissingAlgCheck(use, alg) ==
    IF alg = ""
    THEN IF use = "enc"
         THEN <<Warn("No 'alg' attribute for 'enc' use")>>
         ELSE <<Warn("No 'alg' attribute for 'sig' use")>>
    ELSE <<>>

\* the diagnostics jwkRSAKeyResource.ValidateConfig appends for model m
RSAValidate(m) ==
    LET use == ValueString(m.use)
        alg == ValueString(m.alg)
        bits == m.size
    IN  IF ~isValid(use, validUses)
        THEN <<Err("Invalid attribute value for 'use'")>>
        ELSE IF bits < RSAMinBits
        THEN <<Err("Invalid attribute value for 'size'")>>
        ELSE LET s == RSASigAlgCheck(use, alg, bits)
             IN  IF s.stop THEN s.ds
                 ELSE LET e == RSAEncAlgCheck(use, alg)
                      IN  IF e.stop THEN s.ds \o e.ds
                          ELSE s.ds \o e.ds \o RSAMissingAlgCheck(use, alg)

\* variant: the member set whatever the value
Member_SetAlways(v) == v

\* a JWK member set by key.Set only when the value is not empty
Member(v) == IF v = "" THEN Absent ELSE v

\* generateRSAJWK: rsa.GenerateKey fails only when the random source does
generateRSAJWK(kid, use, alg, bits, entropyOK, rnd) ==
    IF ~entropyOK
    THEN [err |-> TRUE]
    ELSE [err |-> FALSE,
          key |-> [kty |-> "RSA", kid |-> Member(kid), use |-> Member(use),
                   alg |-> Member(alg), crv |-> Absent,
                   nbytes |-> (bits + 7) \div 8, material |-> rnd,
                   private |-> TRUE]]

(***************************************************************************)
(* jwk_ec_key                                                              *)
(***************************************************************************)
\* the diagnostics jwkECKeyResource.ValidateConfig appends for model m
ECValidate(m) ==
    LET use == ValueString(m.use)
        alg == ValueString(m.alg)
        crv == ValueString(m.crv)
    IN  IF use = "sig"
        THEN IF alg \notin DOMAIN ECSigningAlgorithmsToCurves
             THEN <<Err("Invalid 'alg' attribute for use: 'sig'")>>
             ELSE IF crv # ECSigningAlgorithmsToCurves[alg]
                  THEN <<Err("Inconsistent 'crv' for given 'alg'")>>
                  ELSE <<>>
        ELSE IF use = "enc"
        THEN IF alg \notin DOMAIN ECEncAlgorithms
             THEN <<Err("Invalid 'alg' attribute for use: 'enc'")>>
             ELSE IF ~isValid(crv, validECCurves)
                  THEN <<Err("Invalid 'crv' attribute for use: 'enc'")>>
                  ELSE <<>>
        ELSE <<Err("Invalid 'use' attribute")>>

\* getEllipticCurve: the coordinate size in bytes of a supported curve
getEllipticCurve(curveName) ==
    CASE curveName = "P-256" -> [err |-> FALSE, nbytes |-> 32]
      [] curveName = "P-384" -> [err |-> FALSE, nbytes |-> 48]
      [] curveName = "P-521" -> [err |-> FALSE, nbytes |-> 66]
      [] OTHER -> [err |-> TRUE]

\* generateECJWK: fails for an unsupported curve or a failing random source
generateECJWK(kid, use, alg, crv, entropyOK, rnd) ==
    LET curve == getEllipticCurve(crv)
    IN  IF curve.err \/ ~entropyOK
        THEN [err |-> TRUE]
        ELSE [err |-> FALSE,
              key |-> [kty |-> "EC", kid |-> Member(kid), use |-> Member(use),
                       alg |-> Member(alg), crv |-> crv,
                       nbytes |-> curve.nbytes, material |-> rnd,
                       private |-> TRUE]]

(***************************************************************************)
(* jwk_oct_key                                                             *)
(***************************************************************************)
\* variant: divisibility by 4 instead of 8
OctSizeDivisible_Mod4(bits) == GoMod(bits, 4) = 0

\* size must be divisible by 8
OctSizeDivisible(bits) == GoMod(bits, 8) = 0

\* variant: a size equal to the minimum refused
OctAlgTableCheck_Strict(table, alg, bits, invalid) ==
    IF alg \notin DOMAIN table
    THEN [stop |-> TRUE, ds |-> <<Err(invalid)>>]
    ELSE IF bits <= table[alg]
         THEN [stop |-> TRUE, ds |-> <<Err("Invalid key size for 'alg'")>>]
         ELSE [stop |-> FALSE, ds |-> <<>>]

\* the check of a given `alg` against the table of its use: [stop, diags]
OctAlgTableCheck(table, alg, bits, invalid) ==
    IF alg \notin DOMAIN table
    THEN [stop |-> TRUE, ds |-> <<Err(invalid)>>]
    ELSE IF bits < table[alg]
         THEN [stop |-> TRUE, ds |-> <<Err("Invalid key size for 'alg'")>>]
         ELSE [stop |-> FALSE, ds |-> <<>>]

\* "If alg is given, check that it is adhering to specification"
OctAlgCheck(rawAlg, use, bits) ==
    LET alg == ValueString(rawAlg)
    IN  IF rawAlg # Null /\ alg # ""
        THEN IF use = "enc"
             THEN OctAlgTableCheck(OCTSEncryptionAlgorithms, alg, bits, "Invalid algorithm")
             ELSE IF use = "sig"
             THEN OctAlgTableCheck(OCTSignatureAlgorithms, alg, bits, "Invalid algorithm")
             ELSE [stop |-> FALSE, ds |-> <<>>]
        ELSE [stop |-> FALSE, ds |-> <<>>]

\* variant: the warning given without regard to what the algorithm allows
OctMinimumSizeCheck_NoAllowance(use, alg, bits) ==
    IF alg # "none" /\ alg # "dir" /\ bits < securityRecommendation
    THEN <<Warn("Potentially insecure key size")>>
    ELSE <<>>

\* the warning for a key below the general security recommendation
OctMinimumSizeCheck(use, alg, bits) ==
    IF alg # "none" /\ alg # "dir" /\ bits < securityRecommendation
    THEN LET allowed ==
                 \/ /\ use = "enc"
                    /\ alg \in DOMAIN OCTSEncryptionAlgorithms
                    /\ OCTSEncryptionAlgorithms[alg] <= bits
                 \/ /\ use # "enc"
                    /\ use = "sig"
                    /\ alg \in DOMAIN OCTSignatureAlgorithms
                    /\ OCTSignatureAlgorithms[alg] <= bits
         IN  IF ~allowed THEN <<Warn("Potentially insecure key size")>> ELSE <<>>
    ELSE <<>>

\* the diagnostics jwkOctKeyResource.ValidateConfig appends for model m
OctValidate(m) ==
    LET use == ValueString(m.use)
        alg == ValueString(m.alg)
        bits == m.size
    IN  IF ~isValid(use, validUses)
        THEN <<Err("Invalid attribute value for 'use'")>>
        ELSE IF ~OctSizeDivisible(bits)
        THEN <<Err("Invalid attribute value for 'size'")>>
        ELSE LET a == OctAlgCheck(m.alg, use, bits)
             IN  IF a.stop THEN a.ds
                 ELSE a.ds \o OctMinimumSizeCheck(use, alg, bits)

\* variant: the key of none and dir has the configured length too
generateOctJWK_NoSpecialCase(kid, use, alg, numBytesArg, entropyOK, rnd) ==
    LET numBytes == numBytesArg
    IN  IF numBytes < 0
        THEN [err |-> TRUE, panic |-> TRUE]
        ELSE IF ~entropyOK \/ numBytes = 0
        THEN [err |-> TRUE, panic |-> FALSE]
        ELSE [err |-> FALSE, panic |-> FALSE,
              key |-> [kty |-> "oct", kid |-> Member(kid), use |-> Member(use),
                       alg |-> Member(alg), crv |-> Absent,
                       nbytes |-> numBytes, material |-> rnd,
                       private |-> TRUE]]

\* generateOctJWK: make([]byte, n) panics for a negative n, rand.Read fails
\* when the random source does, jwk.FromRaw rejects an empty byte slice
generateOctJWK(kid, use, alg, numBytesArg, entropyOK, rnd) ==
    LET numBytes == IF alg = "none" \/ alg = "dir" THEN 1 ELSE numBytesArg
    IN  IF numBytes < 0
        THEN [err |-> TRUE, panic |-> TRUE]
        ELSE IF ~entropyOK \/ numBytes = 0
        THEN [err |-> TRUE, panic |-> FALSE]
        ELSE [err |-> FALSE, panic |-> FALSE,
              key |-> [kty |-> "oct", kid |-> Member(kid), use |-> Member(use),
                       alg |-> Member(alg), crv |-> Absent,
                       nbytes |-> numBytes, material |-> rnd,
                       private |-> TRUE]]

(***************************************************************************)
(* jwk_okp_keypair                                                         *)
(***************************************************************************)
\* the diagnostics jwkOKPKeyResource.ValidateConfig appends for model m
OKPValidate(m) ==
    LET use == ValueString(m.use)
        alg == ValueString(m.alg)
    IN  IF ~isValid(use, validUses)
        THEN <<Err("Invalid attribute value for 'use'")>>
        ELSE IF use = "sig" /\ ~isValid(alg, OKPSigAlgorithms)
        THEN <<Err("Invalid 'alg' attribute for signature")>>
        ELSE IF use = "enc" /\ ~isValid(alg, OKPEncAlgorithms)
        THEN <<Err("Invalid algorithm for encryption")>>
        ELSE <<>>

\* generateOKPJWK: always an Ed25519 pair, whatever alg says
generateOKPJWK(kid, use, alg, entropyOK, rnd) ==
    IF ~entropyOK
    THEN [err |-> TRUE]
    ELSE [err |-> FALSE,
          priv |-> [kty |-> "OKP", kid |-> Member(kid), use |-> Member(use),
                    alg |-> Member(alg), crv |-> "Ed25519", nbytes |-> 32,
                    material |-> rnd, private |-> TRUE],
          pub |-> [kty |-> "OKP", kid |-> Member(kid), use |-> Member(use),
                   alg |-> Member(alg), crv |-> "Ed25519", nbytes |-> 32,
                   material |-> rnd, private |-> FALSE]]

(***************************************************************************)
(* JWK documents                                                           *)
(***************************************************************************)
\* json.Marshal of a generated key: the members that are set, the key
\* material base64url encoded in the member of its key type
MarshalJWK(key) ==
    LET text == EncodeToString(key.nbytes, key.material)
    IN  [ok |-> TRUE, kty |-> key.kty, kid |-> key.kid, use |-> key.use,
         alg |-> key.alg, crv |-> key.crv,
         k |-> IF key.kty = "oct" THEN text ELSE AbsentMember,
         n |-> IF key.kty = "RSA" THEN text ELSE AbsentMember,
         x |-> IF key.kty \in {"EC", "OKP"} THEN text ELSE AbsentMember,
         d |-> IF key.kty # "oct" /\ key.private THEN text ELSE AbsentMember]

(***************************************************************************)
(* JSON texts.  A text is a sequence of tokens: the punctuation of an      *)
(* object, whitespace, and whole members ("kid:a" stands for "kid":"a").   *)
(***************************************************************************)
JsonWS == " "
JsonMembers ==
    {"kid:a", "kid:b", "k:x", "kid:<", "kid:\\u003c"}
        \cup {"kid:k1"} \cup {"k:" \o ToString(m) : m \in Materials}

\* the text without its insignificant whitespace
StripWS(text) == SelectSeq(text, LAMBDA t : t # JsonWS)

\* the text without leading and trailing whitespace
RECURSIVE TrimLeft(_)
TrimLeft(text) ==
    IF text # <<>> /\ Head(text) = JsonWS THEN TrimLeft(Tail(text)) ELSE text

RECURSIVE TrimRight(_)
TrimRight(text) ==
    IF text # <<>> /\ text[Len(text)] = JsonWS
    THEN TrimRight(SubSeq(text, 1, Len(text) - 1))
    ELSE text

\* encoding/json's validity check, for the texts of this model: one object
\* whose members are separated by commas
ValidJSON(text) ==
    LET t == StripWS(text)
        n == Len(t)
    IN  /\ n >= 2
        /\ t[1] = "{"
        /\ t[n] = "}"
        /\ \/ n = 2
           \/ /\ n % 2 = 1
              /\ \A i \in 2..(n - 1) :
                    IF i % 2 = 0 THEN t[i] \in JsonMembers ELSE t[i] = ","

\* variant: the text taken over without the validity check
UnmarshalRaw_NoCheck(text) == [err |-> FALSE, raw |-> TrimRight(TrimLeft(text))]

\* json.Unmarshal into a json.RawMessage: the bytes of the value as written
UnmarshalRaw(text) ==
    IF ValidJSON(text)
    THEN [err |-> FALSE, raw |-> TrimRight(TrimLeft(text))]
    ELSE [err |-> TRUE]

\* the escaping json.Marshal applies to the output of a Marshaler
EscapeHTML(t) == IF t = "kid:<" THEN "kid:\\u003c" ELSE t

\* json.Marshal's compact(): no insignificant whitespace, HTML escaped
Compact(raw) ==
    LET t == StripWS(raw) IN [i \in 1..Len(t) |-> EscapeHTML(t[i])]

\* the document a text denotes: escapes resolved, whitespace ignored
UnescapeToken(t) == IF t = "kid:\\u003c" THEN "kid:<" ELSE t
Document(text) ==
    LET t == StripWS(text) IN [i \in 1..Len(t) |-> UnescapeToken(t[i])]

\* the elements of a marshalled slice, separated by commas
RECURSIVE JoinRaw(_)
JoinRaw(raws) ==
    IF raws = <<>> THEN <<>>
    ELSE IF Len(raws) = 1 THEN Compact(raws[1])
    ELSE Compact(raws[1]) \o <<",">> \o JoinRaw(Tail(raws))

\* json.Marshal(JWKKeyset{Keys: raws})
MarshalKeyset(raws) == <<"{", "keys:", "[">> \o JoinRaw(raws) \o <<"]", "}">>

\* variant: each raw message put in front of the ones before it
RECURSIVE ParseKeys_Prepend(_, _)
ParseKeys_Prepend(keys, acc) ==
    IF keys = <<>> THEN [err |-> FALSE, raws |-> acc]
    ELSE LET r == UnmarshalRaw(Head(keys))
         IN  IF r.err THEN [err |-> TRUE]
             ELSE ParseKeys_Prepend(Tail(keys), <<r.raw>> \o acc)

\* the raw messages of the keys up to the first invalid one
RECURSIVE ParseKeys(_, _)
ParseKeys(keys, acc) ==
    IF keys = <<>> THEN [err |-> FALSE, raws |-> acc]
    ELSE LET r == UnmarshalRaw(Head(keys))
         IN  IF r.err THEN [err |-> TRUE]
             ELSE ParseKeys(Tail(keys), Append(acc, r.raw))

\* CreateJWKKeyset
CreateJWKKeyset(keys) ==
    LET p == ParseKeys(keys, <<>>)
    IN  IF p.err THEN [err |-> TRUE]
        ELSE [err |-> FALSE, json |-> MarshalKeyset(p.raws)]

\* the elements of the "keys" array of a key set document, by splitting its
\* array at the commas outside any object
RECURSIVE SplitElements(_, _, _, _)
SplitElements(toks, depth, cur, acc) ==
    IF toks = <<>>
    THEN IF cur = <<>> THEN acc ELSE Append(acc, cur)
    ELSE LET t == Head(toks)
         IN  IF t = "," /\ depth = 0
             THEN SplitElements(Tail(toks), depth, <<>>, Append(acc, cur))
             ELSE SplitElements(Tail(toks),
                                IF t = "{" THEN depth + 1
                                ELSE IF t = "}" THEN depth - 1 ELSE depth,
                                Append(cur, t), acc)

IsKeysetDocument(json) ==
    /\ Len(json) >= 5
    /\ SubSeq(json, 1, 3) = <<"{", "keys:", "[">>
    /\ SubSeq(json, Len(json) - 1, Len(json)) = <<"]", "}">>

KeysetElements(json) ==
    SplitElements(SubSeq(json, 4, Len(json) - 2), 0, <<>>, <<>>)

\* the text of the JWK document of an oct key, as an element of `keys`: its
\* kid member when it has one, and its k member
KeyText(doc) ==
    <<"{">> \o (IF doc.kid = "k1" THEN <<"kid:k1", ",">> ELSE <<>>)
            \o <<"k:" \o ToString(doc.k.bytes), "}">>

\* the key texts a practitioner may put into `keys`
KeyTexts ==
    { <<"{", "kid:a", "}">>,
      <<" ", "{", " ", "kid:a", " ", "}">>,
      <<"{", "kid:b", ",", "k:x", "}">>,
      <<"{", "kid:<", "}">>,
      <<"{", "kid:a">> }

KeyLists == UNION { [1..n -> KeyTexts] : n \in 0..MaxKeys }

(***************************************************************************)
(* Actions of the key resource                                             *)
(***************************************************************************)
\* the practitioner writes a resource block
Configure ==
    /\ pc = "idle"
    /\ \E c \in Configs : config' = c
    /\ pc' = "configured"
    /\ UNCHANGED <<diags, state, keysetVars, importID, fn>>

jwkRSAKeyResource_ValidateConfig ==
    /\ pc = "configured"
    /\ config.rtype = "jwk_rsa_key"
    /\ diags' = RSAValidate(config)
    /\ pc' = "validated"
    /\ UNCHANGED <<config, state, keysetVars, importID, fn>>

\* variant: Create run whatever validation reported
jwkRSAKeyResource_Create_Unguarded ==
    /\ pc = "validated"
    /\ config.rtype = "jwk_rsa_key"
    /\ ~state.exists
    /\ \E entropyOK \in BOOLEAN, rnd \in Materials :
         LET r == generateRSAJWK(ValueString(config.kid), ValueString(config.use),
                                 ValueString(config.alg), config.size, entropyOK,
                                 rnd)
         IN  IF r.err
             THEN /\ diags' = <<Err("RSA Key Generation Failed")>>
                  /\ state' = state
                  /\ pc' = "failed"
             ELSE /\ diags' = <<>>
                  /\ state' = [exists |-> TRUE, kid |-> config.kid, use |-> config.use,
                               alg |-> config.alg, size |-> config.size,
                               crv |-> config.crv, json |-> MarshalJWK(r.key),
                               public_key |-> NoDocument]
                  /\ pc' = "created"
    /\ UNCHANGED <<config, keysetVars, importID, fn>>

\* Create runs only for a configuration whose validation reported no error
jwkRSAKeyResource_Create ==
    /\ pc = "validated"
    /\ config.rtype = "jwk_rsa_key"
    /\ ~HasError(diags)
    /\ ~state.exists
    /\ \E entropyOK \in BOOLEAN, rnd \in Materials :
         LET r == generateRSAJWK(ValueString(config.kid), ValueString(config.use),
                                 ValueString(config.alg), config.size, entropyOK,
                                 rnd)
         IN  IF r.err
             THEN /\ diags' = <<Err("RSA Key Generation Failed")>>
                  /\ state' = state
                  /\ pc' = "failed"
             ELSE /\ diags' = <<>>
                  /\ state' = [exists |-> TRUE, kid |-> config.kid, use |-> config.use,
                               alg |-> config.alg, size |-> config.size,
                               crv |-> config.crv, json |-> MarshalJWK(r.key),
                               public_key |-> NoDocument]
                  /\ pc' = "created"
    /\ UNCHANGED <<config, keysetVars, importID, fn>>

jwkECKeyResource_ValidateConfig ==
    /\ pc = "configured"
    /\ config.rtype = "jwk_ec_key"
    /\ diags' = ECValidate(config)
    /\ pc' = "validated"
    /\ UNCHANGED <<config, state, keysetVars, importID, fn>>

jwkECKeyResource_Create ==
    /\ pc = "validated"
    /\ config.rtype = "jwk_ec_key"
    /\ ~HasError(diags)
    /\ ~state.exists
    /\ \E entropyOK \in BOOLEAN, rnd \in Materials :
         LET r == generateECJWK(ValueString(config.kid), ValueString(config.use),
                                ValueString(config.alg), ValueString(config.crv),
                                entropyOK, rnd)
         IN  IF r.err
             THEN /\ diags' = <<Err("EC Key Generation Failed")>>
                  /\ state' = state
                  /\ pc' = "failed"
             ELSE /\ diags' = <<>>
                  /\ state' = [exists |-> TRUE, kid |-> config.kid, use |-> config.use,
                               alg |-> config.alg, size |-> config.size,
                               crv |-> config.crv, json |-> MarshalJWK(r.key),
                               public_key |-> NoDocument]
                  /\ pc' = "created"
    /\ UNCHANGED <<config, keysetVars, importID, fn>>

jwkOctKeyResource_ValidateConfig ==
    /\ pc = "configured"
    /\ config.rtype = "jwk_oct_key"
    /\ diags' = OctValidate(config)
    /\ pc' = "validated"
    /\ UNCHANGED <<config, state, keysetVars, importID, fn>>

jwkOctKeyResource_Create ==
    /\ pc = "validated"
    /\ config.rtype = "jwk_oct_key"
    /\ ~HasError(diags)
    /\ ~state.exists
    /\ \E entropyOK \in BOOLEAN, rnd \in Materials :
         LET num_bytes == GoDiv(config.size, 8)
             r == generateOctJWK(ValueString(config.kid), ValueString(config.use),
                                 ValueString(config.alg), num_bytes, entropyOK,
                                 rnd)
         IN  IF r.err
             THEN /\ diags' = IF r.panic THEN diags
                              ELSE <<Err("Symmetric Key Generation Failed")>>
                  /\ state' = state
                  /\ pc' = IF r.panic THEN "crashed" ELSE "failed"
             ELSE /\ diags' = <<>>
                  /\ state' = [exists |-> TRUE, kid |-> config.kid, use |-> config.use,
                               alg |-> config.alg, size |-> config.size,
                               crv |-> config.crv, json |-> MarshalJWK(r.key),
                               public_key |-> NoDocument]
                  /\ pc' = "created"
    /\ UNCHANGED <<config, keysetVars, importID, fn>>

jwkOKPKeyResource_ValidateConfig ==
    /\ pc = "configured"
    /\ config.rtype = "jwk_okp_keypair"
    /\ diags' = OKPValidate(config)
    /\ pc' = "validated"
    /\ UNCHANGED <<config, state, keysetVars, importID, fn>>

jwkOKPKeyResource_Create ==
    /\ pc = "validated"
    /\ config.rtype = "jwk_okp_keypair"
    /\ ~HasError(diags)
    /\ ~state.exists
    /\ \E entropyOK \in BOOLEAN, rnd \in Materials :
         LET r == generateOKPJWK(ValueString(config.kid), ValueString(config.use),
                                 ValueString(config.alg), entropyOK, rnd)
         IN  IF r.err
             THEN /\ diags' = <<Err("OKP Key Generation Failed")>>
                  /\ state' = state
                  /\ pc' = "failed"
             ELSE /\ diags' = <<>>
                  /\ state' = [exists |-> TRUE, kid |-> config.kid, use |-> config.use,
                               alg |-> config.alg, size |-> config.size,
                               crv |-> config.crv, json |-> MarshalJWK(r.priv),
                               public_key |-> MarshalJWK(r.pub)]
                  /\ pc' = "created"
    /\ UNCHANGED <<config, keysetVars, importID, fn>>

(***************************************************************************)
(* The later life of a key resource                                        *)
(***************************************************************************)
\* the positions in which the resource has a state and no operation pending
Live == {"created", "updated", "refreshed", "imported"}

\* the practitioner writes a resource block, or changes the one applied
ConfigureLife ==
    /\ pc \in {"idle"} \cup Live
    /\ \E c \in LifeConfigs :
         /\ pc # "idle" => (c.rtype = config.rtype /\ c # config)
         /\ config' = c
    /\ pc' = "configured"
    /\ UNCHANGED <<diags, state, keysetVars, importID, fn>>

\* Read parses the stored document and writes the model back as it was read
jwkRSAKeyResource_Read ==
    /\ pc \in Live
    /\ config.rtype = "jwk_rsa_key"
    /\ state.exists
    /\ diags' = IF state.json.ok THEN <<>> ELSE <<Err("Invalid JWK in state")>>
    /\ state' = state
    /\ pc' = "refreshed"
    /\ UNCHANGED <<config, keysetVars, importID, fn>>

\* Update generates a key anew from the plan, the way Create does
jwkRSAKeyResource_Update ==
    /\ pc = "validated"
    /\ config.rtype = "jwk_rsa_key"
    /\ ~HasError(diags)
    /\ state.exists
    /\ \E entropyOK \in BOOLEAN, rnd \in Materials :
         LET r == generateRSAJWK(ValueString(config.kid), ValueString(config.use),
                                 ValueString(config.alg), config.size, entropyOK,
                                 rnd)
         IN  IF r.err
             THEN /\ diags' = <<Err("RSA Key Generation Failed")>>
                  /\ state' = state
                  /\ pc' = "failed"
             ELSE /\ diags' = <<>>
                  /\ state' = [exists |-> TRUE, kid |-> config.kid, use |-> config.use,
                               alg |-> config.alg, size |-> config.size,
                               crv |-> config.crv, json |-> MarshalJWK(r.key),
                               public_key |-> NoDocument]
                  /\ pc' = "updated"
    /\ UNCHANGED <<config, keysetVars, importID, fn>>

\* Delete has an empty body: the framework drops the state afterwards
jwkRSAKeyResource_Delete ==
    /\ pc \in Live
    /\ config.rtype = "jwk_rsa_key"
    /\ state.exists
    /\ diags' = <<>>
    /\ state' = NoState
    /\ pc' = "deleted"
    /\ UNCHANGED <<config, keysetVars, importID, fn>>

\* Read has an empty body: the response carries the prior state
jwkECKeyResource_Read ==
    /\ pc \in Live
    /\ config.rtype = "jwk_ec_key"
    /\ state.exists
    /\ diags' = <<>>
    /\ state' = state
    /\ pc' = "refreshed"
    /\ UNCHANGED <<config, keysetVars, importID, fn>>

\* Update generates a key anew from the plan, the way Create does
jwkECKeyResource_Update ==
    /\ pc = "validated"
    /\ config.rtype = "jwk_ec_key"
    /\ ~HasError(diags)
    /\ state.exists
    /\ \E entropyOK \in BOOLEAN, rnd \in Materials :
         LET r == generateECJWK(ValueString(config.kid), ValueString(config.use),
                                ValueString(config.alg), ValueString(config.crv),
                                entropyOK, rnd)
         IN  IF r.err
             THEN /\ diags' = <<Err("EC Key Generation Failed")>>
                  /\ state' = state
                  /\ pc' = "failed"
             ELSE /\ diags' = <<>>
                  /\ state' = [exists |-> TRUE, kid |-> config.kid, use |-> config.use,
                               alg |-> config.alg, size |-> config.size,
                               crv |-> config.crv, json |-> MarshalJWK(r.key),
                               public_key |-> NoDocument]
                  /\ pc' = "updated"
    /\ UNCHANGED <<config, keysetVars, importID, fn>>

\* Delete has an empty body: the framework drops the state afterwards
jwkECKeyResource_Delete ==
    /\ pc \in Live
    /\ config.rtype = "jwk_ec_key"
    /\ state.exists
    /\ diags' = <<>>
    /\ state' = NoState
    /\ pc' = "deleted"
    /\ UNCHANGED <<config, keysetVars, importID, fn>>

\* variant: Read draws the key bytes anew
jwkOctKeyResource_Read_Regenerate ==
    /\ pc \in Live
    /\ config.rtype = "jwk_oct_key"
    /\ state.exists
    /\ diags' = IF state.json.ok THEN <<>> ELSE <<Err("Invalid JWK in state")>>
    /\ \E rnd \in Materials :
         state' = [state EXCEPT !.json.k.bytes = rnd]
    /\ pc' = "refreshed"
    /\ UNCHANGED <<config, keysetVars, importID, fn>>

\* Read parses the stored document and writes the model back as it was read
jwkOctKeyResource_Read ==
    /\ pc \in Live
    /\ config.rtype = "jwk_oct_key"
    /\ state.exists
    /\ diags' = IF state.json.ok THEN <<>> ELSE <<Err("Invalid JWK in state")>>
    /\ state' = state
    /\ pc' = "refreshed"
    /\ UNCHANGED <<config, keysetVars, importID, fn>>

\* variant: a failed generation leaves no state behind
jwkOctKeyResource_Update_DropsState ==
    /\ pc = "validated"
    /\ config.rtype = "jwk_oct_key"
    /\ ~HasError(diags)
    /\ state.exists
    /\ \E entropyOK \in BOOLEAN, rnd \in Materials :
         LET num_bytes == GoDiv(config.size, 8)
             r == generateOctJWK(ValueString(config.kid), ValueString(config.use),
                                 ValueString(config.alg), num_bytes, entropyOK,
                                 rnd)
         IN  IF r.err
             THEN /\ diags' = IF r.panic THEN diags
                              ELSE <<Err("Symmetric Key Generation Failed")>>
                  /\ state' = NoState
                  /\ pc' = IF r.panic THEN "crashed" ELSE "failed"
             ELSE /\ diags' = <<>>
                  /\ state' = [exists |-> TRUE, kid |-> config.kid, use |-> config.use,
                               alg |-> config.alg, size |-> config.size,
                               crv |-> config.crv, json |-> MarshalJWK(r.key),
                               public_key |-> NoDocument]
                  /\ pc' = "updated"
    /\ UNCHANGED <<config, keysetVars, importID, fn>>

\* Update generates a key anew from the plan, the way Create does
jwkOctKeyResource_Update ==
    /\ pc = "validated"
    /\ config.rtype = "jwk_oct_key"
    /\ ~HasError(diags)
    /\ state.exists
    /\ \E entropyOK \in BOOLEAN, rnd \in Materials :
         LET num_bytes == GoDiv(config.size, 8)
             r == generateOctJWK(ValueString(config.kid), ValueString(config.use),
                                 ValueString(config.alg), num_bytes, entropyOK,
                                 rnd)
         IN  IF r.err
             THEN /\ diags' = IF r.panic THEN diags
                              ELSE <<Err("Symmetric Key Generation Failed")>>
                  /\ state' = state
                  /\ pc' = IF r.panic THEN "crashed" ELSE "failed"
             ELSE /\ diags' = <<>>
                  /\ state' = [exists |-> TRUE, kid |-> config.kid, use |-> config.use,
                               alg |-> config.alg, size |-> config.size,
                               crv |-> config.crv, json |-> MarshalJWK(r.key),
                               public_key |-> NoDocument]
                  /\ pc' = "updated"
    /\ UNCHANGED <<config, keysetVars, importID, fn>>

\* variant: the keyset built from the key goes with it
jwkOctKeyResource_Delete_Cascade ==
    /\ pc \in Live
    /\ config.rtype = "jwk_oct_key"
    /\ state.exists
    /\ diags' = <<>>
    /\ state' = NoState
    /\ pc' = "deleted"
    /\ ksState' = NoState
    /\ UNCHANGED <<config, ksPc, ksPlan, ksDiags, importID, fn>>

\* Delete has an empty body: the framework drops the state afterwards
jwkOctKeyResource_Delete ==
    /\ pc \in Live
    /\ config.rtype = "jwk_oct_key"
    /\ state.exists
    /\ diags' = <<>>
    /\ state' = NoState
    /\ pc' = "deleted"
    /\ UNCHANGED <<config, keysetVars, importID, fn>>

\* Read has an empty body: the response carries the prior state
jwkOKPKeyResource_Read ==
    /\ pc \in Live
    /\ config.rtype = "jwk_okp_keypair"
    /\ state.exists
    /\ diags' = <<>>
    /\ state' = state
    /\ pc' = "refreshed"
    /\ UNCHANGED <<config, keysetVars, importID, fn>>

\* Update generates a key anew from the plan, the way Create does
jwkOKPKeyResource_Update ==
    /\ pc = "validated"
    /\ config.rtype = "jwk_okp_keypair"
    /\ ~HasError(diags)
    /\ state.exists
    /\ \E entropyOK \in BOOLEAN, rnd \in Materials :
         LET r == generateOKPJWK(ValueString(config.kid), ValueString(config.use),
                                 ValueString(config.alg), entropyOK, rnd)
         IN  IF r.err
             THEN /\ diags' = <<Err("OKP Key Generation Failed")>>
                  /\ state' = state
                  /\ pc' = "failed"
             ELSE /\ diags' = <<>>
                  /\ state' = [exists |-> TRUE, kid |-> config.kid, use |-> config.use,
                               alg |-> config.alg, size |-> config.size,
                               crv |-> config.crv, json |-> MarshalJWK(r.priv),
                               public_key |-> MarshalJWK(r.pub)]
                  /\ pc' = "updated"
    /\ UNCHANGED <<config, keysetVars, importID, fn>>

\* Delete has an empty body: the framework drops the state afterwards
jwkOKPKeyResource_Delete ==
    /\ pc \in Live
    /\ config.rtype = "jwk_okp_keypair"
    /\ state.exists
    /\ diags' = <<>>
    /\ state' = NoState
    /\ pc' = "deleted"
    /\ UNCHANGED <<config, keysetVars, importID, fn>>

(***************************************************************************)
(* ImportState                                                             *)
(***************************************************************************)
\* the type assertion jwk["..."].(string)
IsString(v) == v # Absent /\ v # NonString

ImportFailure(summary) == [err |-> TRUE, ds |-> <<Err(summary)>>]
ImportedState(kid, use, alg, size, crv, id) ==
    [err |-> FALSE, ds |-> <<>>,
     st |-> [exists |-> TRUE, kid |-> kid, use |-> use, alg |-> alg,
             size |-> size, crv |-> crv, json |-> id,
             public_key |-> NoDocument]]

\* the optional algorithm: empty unless the member is a string
ImportAlg(id) == IF IsString(id.alg) THEN id.alg ELSE ""

\* jwkRSAKeyResource.ImportState: the outcome for import ID id
RSAImportState(id) ==
    IF ~id.ok THEN ImportFailure("Invalid JWK JSON")
    ELSE IF ~IsString(id.kid) THEN ImportFailure("Missing Key ID")
    ELSE IF ~IsString(id.use) THEN ImportFailure("Missing Use")
    ELSE IF id.n.type = "string"
         THEN LET data == DecodeString(id.n)
              IN  IF data.err THEN ImportFailure("Invalid Modulus")
                  ELSE ImportedState(id.kid, id.use, ImportAlg(id),
                                     data.nbytes * 8, "", id)
         ELSE ImportedState(id.kid, id.use, ImportAlg(id), 0, "", id)

\* jwkECKeyResource.ImportState: kid, use, alg and crv taken from the members
\* of the same name, which kid, use and crv must have
ECImportState(id) ==
    IF ~id.ok THEN ImportFailure("Invalid JWK JSON")
    ELSE IF ~IsString(id.kid) THEN ImportFailure("Missing Key ID")
    ELSE IF ~IsString(id.use) THEN ImportFailure("Missing Use")
    ELSE IF ~IsString(id.crv) THEN ImportFailure("Missing Curve")
    ELSE ImportedState(id.kid, id.use, ImportAlg(id), 0, id.crv, id)

\* variant: the key type of the document not looked at
OctImportState_NoKtyCheck(id) ==
    IF ~id.ok THEN ImportFailure("Invalid JWK JSON")
    ELSE IF ~IsString(id.kid) THEN ImportFailure("Missing Key ID")
    ELSE IF ~IsString(id.use) \/ (id.use # "sig" /\ id.use # "enc")
    THEN ImportFailure("Missing or invalid Use")
    ELSE IF id.k.type = "string"
         THEN LET keyBytes == DecodeString(id.k)
              IN  IF keyBytes.err THEN ImportFailure("Invalid Key Material")
                  ELSE ImportedState(id.kid, id.use, ImportAlg(id),
                                     keyBytes.nbytes * 8, "", id)
         ELSE ImportFailure("Missing Key Material")

\* jwkOctKeyResource.ImportState: the outcome for import ID id
OctImportState(id) ==
    IF ~id.ok THEN ImportFailure("Invalid JWK JSON")
    ELSE IF ~IsString(id.kid) THEN ImportFailure("Missing Key ID")
    ELSE IF ~IsString(id.use) \/ (id.use # "sig" /\ id.use # "enc")
    THEN ImportFailure("Missing or invalid Use")
    ELSE IF ~IsString(id.kty) \/ id.kty # "oct"
    THEN ImportFailure("Invalid Key Type")
    ELSE IF id.k.type = "string"
         THEN LET keyBytes == DecodeString(id.k)
              IN  IF keyBytes.err THEN ImportFailure("Invalid Key Material")
                  ELSE ImportedState(id.kid, id.use, ImportAlg(id),
                                     keyBytes.nbytes * 8, "", id)
         ELSE ImportFailure("Missing Key Material")

\* the resource block an import is run against: no argument set
ImportConfig(rtype) ==
    [rtype |-> rtype, kid |-> Null, use |-> Null, alg |-> Null, size |-> 0,
     crv |-> Null]

\* the response of an import: the state is set only when no error was added
ImportApply(rtype, id, r) ==
    /\ importID' = id
    /\ config' = ImportConfig(rtype)
    /\ diags' = r.ds
    /\ state' = IF r.err THEN state ELSE r.st
    /\ pc' = IF r.err THEN "import_failed" ELSE "imported"
    /\ UNCHANGED <<keysetVars, fn>>

jwkRSAKeyResource_ImportState ==
    /\ pc = "idle"
    /\ \E id \in ImportIDs : ImportApply("jwk_rsa_key", id, RSAImportState(id))

jwkECKeyResource_ImportState ==
    /\ pc = "idle"
    /\ \E id \in ImportIDs : ImportApply("jwk_ec_key", id, ECImportState(id))

jwkOctKeyResource_ImportState ==
    /\ pc = "idle"
    /\ \E id \in ImportIDs : ImportApply("jwk_oct_key", id, OctImportState(id))

\* terraform import of the json a Create has stored, into a resource block
\* of the same configuration that has no state yet
jwkOctKeyResource_ImportCreated ==
    /\ pc = "created"
    /\ config.rtype = "jwk_oct_key"
    /\ LET r == OctImportState(state.json)
       IN  /\ importID' = state.json
           /\ diags' = r.ds
           /\ state' = IF r.err THEN NoState ELSE r.st
           /\ pc' = IF r.err THEN "import_failed" ELSE "imported"
    /\ UNCHANGED <<config, keysetVars, fn>>

\* a key that a keyset refers to: its block is written or changed
ConfigureFrame ==
    /\ pc \in {"idle"} \cup Live
    /\ \E c \in FrameConfigs :
         /\ pc # "idle" => c # config
         /\ config' = c
    /\ pc' = "configured"
    /\ UNCHANGED <<diags, state, keysetVars, importID, fn>>

\* ... or it is imported
jwkOctKeyResource_ImportFrame ==
    /\ pc = "idle"
    /\ \E id \in FrameImportIDs :
         ImportApply("jwk_oct_key", id, OctImportState(id))

(***************************************************************************)
(* The public_key function                                                 *)
(***************************************************************************)
\* a member that is absent, or a string that decodes
WellFormed(m) ==
    m.type = "absent" \/ (m.type = "string" /\ ~DecodeString(m).err)

\* the number of bytes a string member decodes to
ByteLen(m) == DecodeString(m).nbytes

\* a JSONWebKey without a key, as Public() returns for a key it cannot handle
EmptyJWK ==
    [Key |-> [kind |-> "nil", private |-> FALSE, crv |-> "", pub |-> AbsentMember,
              priv |-> AbsentMember],
     KeyID |-> "", Algorithm |-> "", Use |-> ""]

ParseFailure == [err |-> TRUE, jwk |-> EmptyJWK]
ParsedJWK(doc, kind, crv, pub, priv) ==
    [err |-> FALSE,
     jwk |-> [Key |-> [kind |-> kind, private |-> priv.type = "string",
                       crv |-> crv, pub |-> pub, priv |-> priv],
              KeyID |-> IF doc.kid = Absent THEN "" ELSE doc.kid,
              Algorithm |-> IF doc.alg = Absent THEN "" ELSE doc.alg,
              Use |-> IF doc.use = Absent THEN "" ELSE doc.use]]

\* variant: a symmetric key treated as an RSA key is, its k as the public part
json2jwk_OctAsPublic(jwkJSON) ==
    IF \/ ~jwkJSON.ok
       \/ NonString \in {jwkJSON.kty, jwkJSON.kid, jwkJSON.use, jwkJSON.alg,
                          jwkJSON.crv}
       \/ \E m \in {jwkJSON.k, jwkJSON.n, jwkJSON.x, jwkJSON.d} : ~WellFormed(m)
    THEN ParseFailure
    ELSE CASE jwkJSON.kty = "RSA" ->
                  IF jwkJSON.n.type # "string" THEN ParseFailure
                  ELSE ParsedJWK(jwkJSON, "rsa", "", jwkJSON.n, jwkJSON.d)
           [] jwkJSON.kty = "EC" ->
                  LET curve == getEllipticCurve(jwkJSON.crv)
                  IN  IF \/ curve.err
                         \/ jwkJSON.x.type # "string"
                         \/ ByteLen(jwkJSON.x) # curve.nbytes
                         \/ /\ jwkJSON.d.type = "string"
                            /\ ByteLen(jwkJSON.d) # curve.nbytes
                      THEN ParseFailure
                      ELSE ParsedJWK(jwkJSON, "ecdsa", jwkJSON.crv, jwkJSON.x,
                                     jwkJSON.d)
           [] jwkJSON.kty = "OKP" ->
                  IF jwkJSON.crv # "Ed25519" \/ jwkJSON.x.type # "string"
                  THEN ParseFailure
                  ELSE ParsedJWK(jwkJSON, "ed25519", "Ed25519", jwkJSON.x,
                                 jwkJSON.d)
           [] jwkJSON.kty = "oct" ->
                  IF jwkJSON.k.type # "string" THEN ParseFailure
                  ELSE ParsedJWK(jwkJSON, "rsa", "", jwkJSON.k, AbsentMember)
           [] OTHER -> ParseFailure

\* json2jwk: json.Unmarshal into a JSONWebKey.  A member of the wrong JSON
\* type or one that does not decode fails the whole document; the key type
\* decides which members the key is made of
json2jwk(jwkJSON) ==
    IF \/ ~jwkJSON.ok
       \/ NonString \in {jwkJSON.kty, jwkJSON.kid, jwkJSON.use, jwkJSON.alg,
                          jwkJSON.crv}
       \/ \E m \in {jwkJSON.k, jwkJSON.n, jwkJSON.x, jwkJSON.d} : ~WellFormed(m)
    THEN ParseFailure
    ELSE CASE jwkJSON.kty = "RSA" ->
                  IF jwkJSON.n.type # "string" THEN ParseFailure
                  ELSE ParsedJWK(jwkJSON, "rsa", "", jwkJSON.n, jwkJSON.d)
           [] jwkJSON.kty = "EC" ->
                  LET curve == getEllipticCurve(jwkJSON.crv)
                  IN  IF \/ curve.err
                         \/ jwkJSON.x.type # "string"
                         \/ ByteLen(jwkJSON.x) # curve.nbytes
                         \/ /\ jwkJSON.d.type = "string"
                            /\ ByteLen(jwkJSON.d) # curve.nbytes
                      THEN ParseFailure
                      ELSE ParsedJWK(jwkJSON, "ecdsa", jwkJSON.crv, jwkJSON.x,
                                     jwkJSON.d)
           [] jwkJSON.kty = "OKP" ->
                  IF jwkJSON.crv # "Ed25519" \/ jwkJSON.x.type # "string"
                  THEN ParseFailure
                  ELSE ParsedJWK(jwkJSON, "ed25519", "Ed25519", jwkJSON.x,
                                 jwkJSON.d)
           [] jwkJSON.kty = "oct" ->
                  IF jwkJSON.k.type # "string" THEN ParseFailure
                  ELSE ParsedJWK(jwkJSON, "bytes", "", AbsentMember, jwkJSON.k)
           [] OTHER -> ParseFailure

\* variant: the private part kept in the copy
Public_KeepsPrivate(k) ==
    IF k.Key.kind \in {"rsa", "ecdsa", "ed25519"} THEN k ELSE EmptyJWK

\* JSONWebKey.Public: a public key as it is, of a private key the copy with
\* the public part only, of anything else the empty JSONWebKey
Public(k) ==
    IF k.Key.kind \in {"rsa", "ecdsa", "ed25519"}
    THEN IF ~k.Key.private THEN k
         ELSE [k EXCEPT !.Key.private = FALSE, !.Key.priv = AbsentMember]
    ELSE EmptyJWK

\* the text a decoded member is written back as
Reencode(m) ==
    IF m.type = "string" THEN EncodeToString(ByteLen(m), m.bytes)
    ELSE AbsentMember

\* json.Marshal of a JSONWebKey: an error for a key of no known type
MarshalJSON(k) ==
    IF k.Key.kind = "nil"
    THEN [err |-> TRUE, doc |-> NotJSON]
    ELSE [err |-> FALSE,
          doc |-> [ok |-> TRUE,
                   kty |-> CASE k.Key.kind = "rsa" -> "RSA"
                             [] k.Key.kind = "ecdsa" -> "EC"
                             [] k.Key.kind = "ed25519" -> "OKP"
                             [] k.Key.kind = "bytes" -> "oct",
                   kid |-> Member(k.KeyID), use |-> Member(k.Use),
                   alg |-> Member(k.Algorithm),
                   crv |-> IF k.Key.crv = "" THEN Absent ELSE k.Key.crv,
                   k |-> IF k.Key.kind = "bytes" THEN Reencode(k.Key.priv)
                         ELSE AbsentMember,
                   n |-> IF k.Key.kind = "rsa" THEN Reencode(k.Key.pub)
                         ELSE AbsentMember,
                   x |-> IF k.Key.kind \in {"ecdsa", "ed25519"}
                         THEN Reencode(k.Key.pub) ELSE AbsentMember,
                   d |-> IF k.Key.kind # "bytes" /\ k.Key.private
                         THEN Reencode(k.Key.priv) ELSE AbsentMember]]

\* publicKeyFunction.Run: [error, result] for the two arguments
Run(privateJWKStr, kid) ==
    LET privateJWK == json2jwk(privateJWKStr)
    IN  IF privateJWK.err
        THEN [error |-> TRUE, result |-> NotJSON]
        ELSE LET pub == Public(privateJWK.jwk)
                 publicJWK == IF kid # "" THEN [pub EXCEPT !.KeyID = kid] ELSE pub
                 publicJWKBytes == MarshalJSON(publicJWK)
             IN  IF publicJWKBytes.err
                 THEN [error |-> TRUE, result |-> NotJSON]
                 ELSE [error |-> FALSE, result |-> publicJWKBytes.doc]

\* a configuration calls public_key(private_key, kid)
publicKeyFunction_Run ==
    /\ ~fn.called
    /\ \E privateJWKStr \in FunctionDocs, kid \in FunctionKIDs :
         LET r == Run(privateJWKStr, kid)
         IN  fn' = [called |-> TRUE, private_key |-> privateJWKStr, kid |-> kid,
                    error |-> r.error, result |-> r.result]
    /\ UNCHANGED <<keyVars, keysetVars, importID>>

(***************************************************************************)
(* Actions of the keyset resource                                          *)
(***************************************************************************)
\* the practitioner writes or changes the `keys` list
KeysetPlan ==
    /\ ksPc \in {"idle", "applied", "failed"}
    /\ \E keys \in KeyLists : ksPlan' = keys
    /\ ksPc' = "planned"
    /\ UNCHANGED <<ksDiags, ksState, keyVars, importID, fn>>

\* variant: an error stores the planned keys next to the json of before
KeysetApply_KeepsPlan(summary) ==
    LET r == CreateJWKKeyset(ksPlan)
    IN  IF r.err
        THEN /\ ksDiags' = <<Err(summary)>>
             /\ ksState' = IF ksState.exists
                           THEN [ksState EXCEPT !.keys = ksPlan]
                           ELSE ksState
             /\ ksPc' = "failed"
        ELSE /\ ksDiags' = <<>>
             /\ ksState' = [exists |-> TRUE, keys |-> ksPlan, json |-> r.json]
             /\ ksPc' = "applied"

\* the practitioner writes keys = [] or keys = [jwk_oct_key.<name>.json]; the
\* reference is resolved to the json the key has in state at that time
KeysetPlanFrame ==
    /\ ksPc \in {"idle", "applied", "failed"}
    /\ \E keys \in {<<>>} \cup (IF state.exists THEN {<<KeyText(state.json)>>}
                                 ELSE {}) :
         /\ ksPc # "idle" => keys # ksState.keys
         /\ ksPlan' = keys
    /\ ksPc' = "planned"
    /\ UNCHANGED <<ksDiags, ksState, keyVars, importID, fn>>

\* the body Create and Update share: resp.State keeps its value on an error
KeysetApply(summary) ==
    LET r == CreateJWKKeyset(ksPlan)
    IN  IF r.err
        THEN /\ ksDiags' = <<Err(summary)>>
             /\ ksState' = ksState
             /\ ksPc' = "failed"
        ELSE /\ ksDiags' = <<>>
             /\ ksState' = [exists |-> TRUE, keys |-> ksPlan, json |-> r.json]
             /\ ksPc' = "applied"

jwkKeysetResource_Create ==
    /\ ksPc = "planned"
    /\ ~ksState.exists
    /\ KeysetApply("Failed to create JWK Keyset")
    /\ UNCHANGED <<ksPlan, keyVars, importID, fn>>

jwkKeysetResource_Update ==
    /\ ksPc = "planned"
    /\ ksState.exists
    /\ KeysetApply("Failed to Create JWK Keysset")
    /\ UNCHANGED <<ksPlan, keyVars, importID, fn>>

Init ==
    /\ pc = "idle"
    /\ config = NoConfig
    /\ diags = <<>>
    /\ state = NoState
    /\ importID = NoImport
    /\ fn = NoCall
    /\ ksPc = "idle"
    /\ ksPlan = <<>>
    /\ ksDiags = <<>>
    /\ ksState = NoState

Next ==
    \/ Configure
    \/ jwkRSAKeyResource_ValidateConfig
    \/ jwkRSAKeyResource_Create
    \/ jwkECKeyResource_ValidateConfig
    \/ jwkECKeyResource_Create
    \/ jwkOctKeyResource_ValidateConfig
    \/ jwkOctKeyResource_Create
    \/ jwkOKPKeyResource_ValidateConfig
    \/ jwkOKPKeyResource_Create

Spec == Init /\ [][Next]_vars

NextKeyset ==
    \/ KeysetPlan
    \/ jwkKeysetResource_Create
    \/ jwkKeysetResource_Update

SpecKeyset == Init /\ [][NextKeyset]_vars

NextLife ==
    \/ ConfigureLife
    \/ jwkRSAKeyResource_ValidateConfig
    \/ jwkRSAKeyResource_Create
    \/ jwkRSAKeyResource_Read
    \/ jwkRSAKeyResource_Update
    \/ jwkRSAKeyResource_Delete
    \/ jwkECKeyResource_ValidateConfig
    \/ jwkECKeyResource_Create
    \/ jwkECKeyResource_Read
    \/ jwkECKeyResource_Update
    \/ jwkECKeyResource_Delete
    \/ jwkOctKeyResource_ValidateConfig
    \/ jwkOctKeyResource_Create
    \/ jwkOctKeyResource_Read
    \/ jwkOctKeyResource_Update
    \/ jwkOctKeyResource_Delete
    \/ jwkOKPKeyResource_ValidateConfig
    \/ jwkOKPKeyResource_Create
    \/ jwkOKPKeyResource_Read
    \/ jwkOKPKeyResource_Update
    \/ jwkOKPKeyResource_Delete

SpecLife == Init /\ [][NextLife]_vars

NextImport ==
    \/ jwkRSAKeyResource_ImportState
    \/ jwkRSAKeyResource_Read
    \/ jwkECKeyResource_ImportState
    \/ jwkECKeyResource_Read
    \/ jwkOctKeyResource_ImportState
    \/ jwkOctKeyResource_Read

SpecImport == Init /\ [][NextImport]_vars

NextFrame ==
    \/ ConfigureFrame
    \/ jwkOctKeyResource_ImportFrame
    \/ jwkOctKeyResource_ValidateConfig
    \/ jwkOctKeyResource_Create
    \/ jwkOctKeyResource_Read
    \/ jwkOctKeyResource_Update
    \/ jwkOctKeyResource_Delete
    \/ KeysetPlanFrame
    \/ jwkKeysetResource_Create
    \/ jwkKeysetResource_Update

SpecFrame == Init /\ [][NextFrame]_vars

NextRoundTrip ==
    \/ Configure
    \/ jwkOctKeyResource_ValidateConfig
    \/ jwkOctKeyResource_Create
    \/ jwkOctKeyResource_ImportCreated

SpecRoundTrip == Init /\ [][NextRoundTrip]_vars

NextFunction == publicKeyFunction_Run

SpecFunction == Init /\ [][NextFunction]_vars

(***************************************************************************)
(* Properties                                                              *)
(***************************************************************************)
\* the ValidateConfig diagnostics of a configuration of any key resource
Validate(c) ==
    CASE c.rtype = "jwk_rsa_key" -> RSAValidate(c)
      [] c.rtype = "jwk_ec_key" -> ECValidate(c)
      [] c.rtype = "jwk_oct_key" -> OctValidate(c)
      [] c.rtype = "jwk_okp_keypair" -> OKPValidate(c)

Validated(rtype) == pc = "validated" /\ config.rtype = rtype
AlgGiven == ValueString(config.alg) # ""

\* C1: for jwk_ec_key with use=sig, ValidateConfig reports no error exactly
\* when (alg, crv) is one of ES256/P-256, ES384/P-384, ES512/P-521.
C1_ECSigAlgMatchesCurve ==
    (Validated("jwk_ec_key") /\ config.use = "sig") =>
        (~HasError(diags) <=>
            <<ValueString(config.alg), config.crv>> \in
                {<<"ES256", "P-256">>, <<"ES384", "P-384">>, <<"ES512", "P-521">>})

C1_Witness ==
    /\ Validated("jwk_ec_key")
    /\ config.use = "sig" /\ config.alg = "ES256" /\ config.crv = "P-384"
    /\ HasSummary(diags, "error", "Inconsistent 'crv' for given 'alg'")

\* C2: for jwk_oct_key, a size that is not divisible by 8 gets an error from
\* ValidateConfig whatever use and alg are, and Create never runs for it.
C2_OctSizeNotDivisibleBy8Fails ==
    (config.rtype = "jwk_oct_key" /\ config.size % 8 # 0) =>
        /\ pc = "validated" => HasError(diags)
        /\ pc \notin {"created", "failed", "crashed"}
        /\ ~state.exists

C2_Witness ==
    /\ Validated("jwk_oct_key")
    /\ config.size = 12 /\ config.use = "sig" /\ config.alg = "none"
    /\ HasSummary(diags, "error", "Invalid attribute value for 'size'")

\* C3: for a keys list of valid JSON texts, Create/Update store a document
\* {"keys":[...]} with exactly len(keys) elements, the i-th of which is the
\* i-th input document.
C3_KeysetPreservesOrder ==
    (ksPc \in {"applied", "failed"}
        /\ \A i \in 1..Len(ksPlan) : ValidJSON(ksPlan[i])) =>
        /\ ksPc = "applied"
        /\ ksState.exists
        /\ ksState.keys = ksPlan
        /\ IsKeysetDocument(ksState.json)
        /\ LET elems == KeysetElements(ksState.json)
           IN  /\ Len(elems) = Len(ksPlan)
               /\ \A i \in 1..Len(ksPlan) :
                     Document(elems[i]) = Document(ksPlan[i])

C3_Witness ==
    /\ ksPc = "applied"
    /\ ksPlan = << <<"{", "kid:b", ",", "k:x", "}">>,
                   <<" ", "{", " ", "kid:a", " ", "}">>,
                   <<"{", "kid:<", "}">> >>
    /\ ksState.exists

\* C4: for every key resource type, an alg that validation accepts with one
\* use is accepted in no configuration of the same type with the other use.
C4_UseAlgConsistent ==
    (pc = "validated" /\ ~HasError(diags) /\ AlgGiven
        /\ config.use \in {"sig", "enc"}) =>
        \A c \in Configs :
            (/\ c.rtype = config.rtype
             /\ c.alg = config.alg
             /\ c.use = (IF config.use = "sig" THEN "enc" ELSE "sig"))
                => HasError(Validate(c))

C4_Witness ==
    /\ Validated("jwk_rsa_key")
    /\ config.use = "sig" /\ config.alg = "RS256" /\ config.size = 2048
    /\ ~HasError(diags)

\* C5: when an element of keys is not valid JSON, Create and Update add an
\* error diagnostic and leave the stored state as it was.
C5_InvalidKeyWritesNoState ==
    [][(ksPc = "planned" /\ ksPc' # "planned"
            /\ \E i \in 1..Len(ksPlan) : ~ValidJSON(ksPlan[i])) =>
        (/\ ksPc' = "failed"
         /\ HasError(ksDiags')
         /\ ksState' = ksState)]_vars

C5_Witness ==
    /\ ksPc = "failed"
    /\ HasSummary(ksDiags, "error", "Failed to Create JWK Keysset")
    /\ ksState.exists
    /\ ksState.keys # ksPlan

\* C6: for jwk_rsa_key, a size that is not one of the standard RSA modulus
\* sizes is rejected and no key is generated for it.
C6_NonStandardRSASizeRejected ==
    (config.rtype = "jwk_rsa_key" /\ config.size \notin validRSASizes) =>
        (pc # "created" /\ ~state.exists)

\* C7 as claimed: for jwk_rsa_key, whenever alg is given and size is below
\* the minimum recommended size of alg, validation emits a warning and no
\* error.
C7_BelowRecommendedIsWarningOnly ==
    LET MinBits == [a \in {"RS256", "RS384", "RS512", "PS256", "PS384", "PS512",
                           "RSA1_5", "RSA-OAEP", "RSA-OAEP-256"} |->
                       CASE a \in {"RS384", "PS384"} -> 3072
                         [] a \in {"RS512", "PS512"} -> 4096
                         [] OTHER -> 2048]
        alg == ValueString(config.alg)
    IN  (/\ Validated("jwk_rsa_key")
         /\ \/ config.use = "sig" /\ alg \in {"RS256", "RS384", "RS512",
                                              "PS256", "PS384", "PS512"}
            \/ config.use = "enc" /\ alg \in {"RSA1_5", "RSA-OAEP", "RSA-OAEP-256"}
         /\ config.size < MinBits[alg]) =>
            (~HasError(diags) /\ HasWarning(diags))

\* C7 as amended: with use=sig and a signature algorithm, a size of at least
\* 2048 below the recommended minimum of alg gets the warning "Suboptimal
\* RSA key size" and no error, and Create can run; a size below 2048 is an
\* error for every algorithm; at 2048 every signature algorithm is accepted.
C7_WarningFrom2048Up ==
    LET MinBits == [a \in {"RS256", "RS384", "RS512", "PS256", "PS384", "PS512"} |->
                       CASE a \in {"RS384", "PS384"} -> 3072
                         [] a \in {"RS512", "PS512"} -> 4096
                         [] OTHER -> 2048]
        alg == ValueString(config.alg)
    IN  /\ (Validated("jwk_rsa_key") /\ config.use = "sig" /\ alg \in DOMAIN MinBits
              /\ config.size >= 2048) =>
              /\ ~HasError(diags)
              /\ ENABLED jwkRSAKeyResource_Create
              /\ HasSummary(diags, "warning", "Suboptimal RSA key size")
                    <=> config.size < MinBits[alg]
        /\ (Validated("jwk_rsa_key") /\ config.size < 2048) => HasError(diags)
        /\ (pc = "created" /\ config.rtype = "jwk_rsa_key") =>
              (state.exists /\ state.json.kty = "RSA")

C7_Witness ==
    /\ Validated("jwk_rsa_key")
    /\ config.use = "sig" /\ config.alg = "PS512" /\ config.size = 2048
    /\ HasSummary(diags, "warning", "Suboptimal RSA key size")
    /\ ~HasError(diags)

\* C8: for jwk_rsa_key (size at least 2048), a missing alg is accepted, and
\* a given alg is accepted exactly when it is in the signature set for
\* use=sig, in the encryption set for use=enc; otherwise the error names
\* the set of that use.
C8_RSAAlgBelongsToUseSet ==
    LET alg == ValueString(config.alg)
        SigSet == {"RS256", "RS384", "RS512", "PS256", "PS384", "PS512"}
        EncSet == {"RSA1_5", "RSA-OAEP", "RSA-OAEP-256"}
    IN  (Validated("jwk_rsa_key") /\ config.use \in {"sig", "enc"}
            /\ config.size >= 2048) =>
            /\ alg = "" => ~HasError(diags)
            /\ (alg # "" /\ config.use = "sig") =>
                  /\ ~HasError(diags) <=> alg \in SigSet
                  /\ alg \notin SigSet =>
                        HasSummary(diags, "error", "Invalid 'alg' attribute for use: 'sig'")
            /\ (alg # "" /\ config.use = "enc") =>
                  /\ ~HasError(diags) <=> alg \in EncSet
                  /\ alg \notin EncSet =>
                        HasSummary(diags, "error", "Invalid 'alg' attribute for use: 'enc'")

C8_Witness ==
    /\ Validated("jwk_rsa_key")
    /\ config.use = "sig" /\ config.alg = "RS256s" /\ config.size = 2048
    /\ HasSummary(diags, "error", "Invalid 'alg' attribute for use: 'sig'")

\* C9: for every key resource type, a use other than sig and enc gets an
\* error diagnostic about 'use' from ValidateConfig, whatever the other
\* attributes are, and no resource is created for it.
C9_InvalidUseRejected ==
    (config.rtype \in RTypes /\ config.use \notin {"sig", "enc"}) =>
        /\ pc = "validated" =>
              \/ HasSummary(diags, "error", "Invalid attribute value for 'use'")
              \/ HasSummary(diags, "error", "Invalid 'use' attribute")
        /\ pc \notin {"created", "failed", "crashed"}
        /\ ~state.exists

C9_Witness ==
    /\ Validated("jwk_ec_key")
    /\ config.use = "invalid" /\ config.alg = "ES256" /\ config.crv = "P-256"
    /\ HasSummary(diags, "error", "Invalid 'use' attribute")

\* C10: for jwk_oct_key with alg given, validation accepts only an alg of
\* the set of the use with a size of at least the minimum of that alg; a
\* size equal to the minimum (and divisible by 8) is accepted, a smaller one
\* is an error.
C10_OctAlgAndMinimumSize ==
    LET alg == ValueString(config.alg)
        SigMin == [a \in {"HS256", "HS384", "HS512", "none"} |->
                      CASE a = "HS256" -> 256 [] a = "HS384" -> 384
                        [] a = "HS512" -> 512 [] a = "none" -> 0]
        EncMin == [a \in {"A128KW", "A192KW", "A256KW", "dir", "A128GCMKW",
                          "A192GCMKW", "A256GCMKW", "PBES2-HS256+A128KW",
                          "PBES2-HS384+A192KW", "PBES2-HS512+A256KW"} |->
                      CASE a \in {"A128KW", "A128GCMKW"} -> 128
                        [] a \in {"A192KW", "A192GCMKW"} -> 192
                        [] a \in {"A256KW", "A256GCMKW", "PBES2-HS256+A128KW"} -> 256
                        [] a = "PBES2-HS384+A192KW" -> 384
                        [] a = "PBES2-HS512+A256KW" -> 512
                        [] a = "dir" -> 0]
        InSet == \/ config.use = "sig" /\ alg \in DOMAIN SigMin
                 \/ config.use = "enc" /\ alg \in DOMAIN EncMin
        Min == IF config.use = "sig" THEN SigMin[alg] ELSE EncMin[alg]
    IN  (Validated("jwk_oct_key") /\ alg # "") =>
            /\ ~HasError(diags) => (InSet /\ config.size >= Min)
            /\ (InSet /\ config.size = Min) => ~HasError(diags)
            /\ (InSet /\ config.size < Min) => HasError(diags)

C10_Witness ==
    /\ Validated("jwk_oct_key")
    /\ config.use = "enc" /\ config.alg = "A128KW" /\ config.size = 128
    /\ ~HasError(diags)

\* C11 as stated: for jwk_oct_key, every configuration that validation
\* accepts and whose size is below 256 bits gets the warning, without an
\* error, unless alg is "none" or "dir", and with those never gets it.
C11_SmallOctKeyWarns ==
    (Validated("jwk_oct_key") /\ ~HasError(diags) /\ config.size < 256) =>
        (HasSummary(diags, "warning", "Potentially insecure key size")
            <=> ValueString(config.alg) \notin {"none", "dir"})

\* C11 amended: for jwk_oct_key, a configuration that validation accepts and
\* whose size is below 256 bits gets the warning, without an error and with
\* Create still run, unless alg is "none" or "dir" or an algorithm of the
\* configured use whose own minimum the size meets (A128KW, A128GCMKW from
\* 128 bits, A192KW, A192GCMKW from 192 bits); in those cases it gets none.
C11_SmallOctKeyWarnsUnlessAlgAllows ==
    (Validated("jwk_oct_key") /\ ~HasError(diags) /\ config.size < 256) =>
        LET alg == ValueString(config.alg)
            allowed ==
                \/ alg \in {"none", "dir"}
                \/ /\ config.use = "enc"
                   /\ alg \in {"A128KW", "A128GCMKW"}
                   /\ config.size >= 128
                \/ /\ config.use = "enc"
                   /\ alg \in {"A192KW", "A192GCMKW"}
                   /\ config.size >= 192
        IN  /\ HasSummary(diags, "warning", "Potentially insecure key size")
                <=> ~allowed
            /\ ENABLED jwkOctKeyResource_Create

C11_Witness ==
    /\ Validated("jwk_oct_key")
    /\ config.size = 128
    /\ config.alg = Null
    /\ ~HasError(diags)
    /\ HasSummary(diags, "warning", "Potentially insecure key size")

\* C12 as stated: for jwk_ec_key with use=enc, validation reports no error
\* exactly when alg is an ECDH-ES variant and crv is P-256, P-384 or P-521.
C12_ECEncNeedsECDHES ==
    (Validated("jwk_ec_key") /\ config.use = "enc") =>
        (~HasError(diags) <=>
            /\ ValueString(config.alg) \in
                   {"ECDH-ES", "ECDH-ES+A128KW", "ECDH-ES+A192KW",
                    "ECDH-ES+A256KW", "ECDH-ES+A128GCMKW",
                    "ECDH-ES+A192GCMKW", "ECDH-ES+A256GCMKW"}
            /\ ValueString(config.crv) \in {"P-256", "P-384", "P-521"})

\* C12 amended: for jwk_ec_key with use=enc, validation reports no error
\* exactly when alg is one of the seven ECDH-ES variants or ECDH-PS and crv
\* is P-256, P-384 or P-521, in any combination; anything else is an error.
C12_ECEncNeedsECDH ==
    (Validated("jwk_ec_key") /\ config.use = "enc") =>
        (~HasError(diags) <=>
            /\ ValueString(config.alg) \in
                   {"ECDH-ES", "ECDH-ES+A128KW", "ECDH-ES+A192KW",
                    "ECDH-ES+A256KW", "ECDH-ES+A128GCMKW",
                    "ECDH-ES+A192GCMKW", "ECDH-ES+A256GCMKW", "ECDH-PS"}
            /\ ValueString(config.crv) \in {"P-256", "P-384", "P-521"})

C12_Witness ==
    /\ Validated("jwk_ec_key")
    /\ config.use = "enc"
    /\ config.alg = "ECDH-ES+A128KW"
    /\ config.crv = "P-521"
    /\ ~HasError(diags)

\* C13: for jwk_okp_keypair, validation reports no error exactly when use is
\* sig and alg is Ed25519 or Ed448, or use is enc and alg is X25519 or X448;
\* a missing alg is an error.
C13_OKPAlgMatchesUse ==
    Validated("jwk_okp_keypair") =>
        (~HasError(diags) <=>
            \/ /\ config.use = "sig"
               /\ ValueString(config.alg) \in {"Ed25519", "Ed448"}
            \/ /\ config.use = "enc"
               /\ ValueString(config.alg) \in {"X25519", "X448"})

C13_Witness ==
    /\ Validated("jwk_okp_keypair")
    /\ config.use = "sig"
    /\ config.alg = Null
    /\ HasError(diags)

\* the kid members of a key text
KidOf(text) ==
    {t \in {"kid:a", "kid:b", "kid:<"} :
        \E i \in 1..Len(Document(text)) : Document(text)[i] = t}
HasDuplicateKid(keys) ==
    \E i, j \in 1..Len(keys) : i < j /\ KidOf(keys[i]) \cap KidOf(keys[j]) # {}

\* C14: when a keyset has been built, a diagnostic was reported exactly if two
\* keys of the list carry the same kid.
C14_DuplicateKidReported ==
    ksPc = "applied" => (HasDuplicateKid(ksPlan) <=> ksDiags # <<>>)

\* the members of a JWK document that hold key material
KeyMaterial(doc) == <<doc.k, doc.n, doc.x, doc.d>>
KeyResources == {"jwk_rsa_key", "jwk_ec_key", "jwk_oct_key"}

\* C15 as stated: once a key resource has a state, no step changes the key
\* material in its json attribute as long as it has a state.
C15_KeyMaterialNeverChanges ==
    [][(state.exists /\ state'.exists /\ config.rtype \in KeyResources) =>
           KeyMaterial(state'.json) = KeyMaterial(state.json)]_vars

\* C15 amended: once a key resource has been created, no later Read or Delete
\* changes the key material in its json attribute as long as the resource has
\* a state; an Update generates a key anew from the plan and stores it.
C15_OnlyUpdateChangesKeyMaterial ==
    [][(state.exists /\ config.rtype \in KeyResources) =>
           IF pc = "validated"
           THEN pc' = "updated" =>
                    /\ state'.exists
                    /\ state'.json.ok
                    /\ state'.json.kid = config.kid
                    /\ state'.size = config.size
           ELSE state'.exists => state'.json = state.json]_vars

C15_Witness ==
    /\ pc = "refreshed"
    /\ state.exists
    /\ config.rtype = "jwk_oct_key"
    /\ state.json.k.bytes = 2

\* C16: no step is taken from a configuration that validation rejected, and
\* the state is written only by a step from a validated configuration without
\* an error diagnostic.
C16_ValidationErrorsBlockCreate ==
    [][/\ ~(pc = "validated" /\ HasError(diags))
       /\ state' # state =>
              /\ pc = "validated"
              /\ ~HasError(diags)
              /\ ~HasError(Validate(config))]_vars

C16_Witness ==
    /\ pc = "validated"
    /\ config.rtype = "jwk_rsa_key"
    /\ config.use = "invalid"
    /\ HasError(diags)
    /\ ~state.exists

\* C17 as stated: after a successful Create of a key resource the state holds
\* kid, use, alg, size and crv as configured and a json document whose kid and
\* use equal the configured values and whose alg does, or is absent when none
\* was configured.
C17_StateHoldsConfigAndJWK ==
    (pc = "created" /\ config.rtype \in KeyResources) =>
        /\ state.exists
        /\ state.kid = config.kid
        /\ state.use = config.use
        /\ state.alg = config.alg
        /\ state.size = config.size
        /\ state.crv = config.crv
        /\ state.json.ok
        /\ state.json.kid = config.kid
        /\ state.json.use = config.use
        /\ state.json.alg = IF ValueString(config.alg) = "" THEN Absent
                            ELSE config.alg

\* C17 amended: after a successful Create of a key resource the state holds
\* kid, use, alg, size and crv as configured and a json document whose use
\* equals the configured value and whose kid and alg do, each being absent
\* when the configured value is empty.
C17_StateHoldsConfigAndJWKMembers ==
    (pc = "created" /\ config.rtype \in KeyResources) =>
        /\ state.exists
        /\ state.kid = config.kid
        /\ state.use = config.use
        /\ state.alg = config.alg
        /\ state.size = config.size
        /\ state.crv = config.crv
        /\ state.json.ok
        /\ state.json.kid = IF config.kid = "" THEN Absent ELSE config.kid
        /\ state.json.use = config.use
        /\ state.json.alg = IF ValueString(config.alg) = "" THEN Absent
                            ELSE config.alg

C17_Witness ==
    /\ pc = "created"
    /\ config.rtype = "jwk_rsa_key"
    /\ config.kid = "k1"
    /\ config.alg = Null
    /\ state.json.alg = Absent

\* the schema of each resource, and its computed attributes for key documents
SchemaOf(rtype) ==
    CASE rtype = "jwk_rsa_key" -> jwkRSAKeyResource_Schema
      [] rtype = "jwk_ec_key" -> jwkECKeyResource_Schema
      [] rtype = "jwk_oct_key" -> jwkOctKeyResource_Schema
      [] rtype = "jwk_okp_keypair" -> jwkOKPKeyResource_Schema
HoldsSecret(doc) == doc.k.type = "string" \/ doc.d.type = "string"

\* C18: whenever a computed attribute of a stored state holds private or
\* secret key material, its schema marks the attribute sensitive: json of a
\* key resource, private_key of jwk_okp_keypair, json of jwk_keyset.
C18_SecretAttributesSensitive ==
    /\ (state.exists /\ config.rtype \in KeyResources /\ HoldsSecret(state.json))
           => SchemaOf(config.rtype).json.sensitive
    /\ (state.exists /\ config.rtype = "jwk_okp_keypair"
            /\ HoldsSecret(state.json))
           => SchemaOf(config.rtype).private_key.sensitive
    /\ (ksState.exists /\ \E i \in 1..Len(ksState.json) : ksState.json[i] = "k:x")
           => jwkKeysetResource_Schema.json.sensitive

C20_OctImportRejectsInvalidKey ==
    (pc \in {"imported", "import_failed"} /\ config.rtype = "jwk_oct_key") =>
        LET id == importID
            invalid ==
                \/ ~id.ok
                \/ id.kid \in {Absent, NonString}
                \/ id.use \notin {"sig", "enc"}
                \/ id.kty # "oct"
                \/ id.k.type # "string"
                \/ ~id.k.clean
                \/ id.k.chars % 4 = 1
        IN  invalid => (HasError(diags) /\ ~state.exists /\ pc = "import_failed")

C20_Witness ==
    /\ pc = "import_failed"
    /\ config.rtype = "jwk_oct_key"
    /\ importID.ok
    /\ importID.kid = "k1"
    /\ importID.use = "sig"
    /\ importID.kty = "RSA"
    /\ HasSummary(diags, "error", "Invalid Key Type")

\* C21: an ImportState of jwk_rsa_key with an ID whose kty is not RSA, or
\* that has no modulus n, ends with an error diagnostic and no state.
C21_RSAImportRejectsNonRSA ==
    (pc \in {"imported", "import_failed"} /\ config.rtype = "jwk_rsa_key") =>
        ((importID.ok /\ (importID.kty # "RSA" \/ importID.n.type # "string"))
            => (HasError(diags) /\ ~state.exists))

\* C22: public_key(private_key, kid) of a private RSA or EC JWK is the public
\* half: the same kty, use, alg and public parameters, no private parameter,
\* and as kid the argument when it is not empty, else the kid of the private
\* key; of a text that is no JWK it is an error and no result.
C22_PublicKeyOfPrivateJWK ==
    fn.called =>
        LET doc == fn.private_key
            wf(m) == m.type = "absent" \/ (m.type = "string" /\ m.chars % 4 # 1)
            allwf == wf(doc.k) /\ wf(doc.n) /\ wf(doc.x) /\ wf(doc.d)
            rsaPrivate ==
                /\ doc.ok /\ allwf /\ doc.kty = "RSA"
                /\ doc.n.type = "string" /\ doc.d.type = "string"
            ecPrivate ==
                /\ doc.ok /\ allwf /\ doc.kty = "EC" /\ doc.crv = "P-256"
                /\ doc.x.type = "string" /\ doc.x.chars = 43
                /\ doc.d.type = "string" /\ doc.d.chars = 43
        IN  /\ (rsaPrivate \/ ecPrivate) =>
                /\ ~fn.error
                /\ fn.result.ok
                /\ fn.result.kty = doc.kty
                /\ fn.result.use = doc.use
                /\ fn.result.alg = doc.alg
                /\ fn.result.n = (IF rsaPrivate THEN doc.n ELSE AbsentMember)
                /\ fn.result.x = (IF ecPrivate THEN doc.x ELSE AbsentMember)
                /\ fn.result.crv = (IF ecPrivate THEN doc.crv ELSE Absent)
                /\ fn.result.d = AbsentMember
                /\ fn.result.k = AbsentMember
                /\ fn.result.kid = (IF fn.kid # "" THEN fn.kid ELSE doc.kid)
            /\ (~doc.ok \/ doc.kty \notin {"RSA", "EC", "oct", "OKP"}) =>
                (fn.error /\ fn.result = NotJSON)

C22_Witness ==
    /\ fn.called
    /\ fn.private_key.kty = "EC"
    /\ fn.private_key.d.type = "string"
    /\ fn.private_key.kid = "k1"
    /\ fn.kid = "k2"
    /\ ~fn.error
    /\ fn.result.kid = "k2"

\* C26: whenever a key resource has a state, its use is sig or enc, and the
\* size of a jwk_rsa_key is at least 2048, after an import as after a Create
\* or an Update.
C26_StateUseAndSizeValid ==
    (state.exists /\ config.rtype \in {"jwk_rsa_key", "jwk_oct_key"}) =>
        /\ state.use \in {"sig", "enc"}
        /\ config.rtype = "jwk_rsa_key" => state.size >= 2048

\* C27: a jwk_oct_key configuration that ValidateConfig accepts has a size
\* that is a non-negative multiple of 8, and its Create neither fails nor
\* crashes when the random source delivers.
C27_AcceptedOctSizeCanBeGenerated ==
    config.rtype = "jwk_oct_key" =>
        /\ (pc = "validated" /\ ~HasError(diags)) =>
              (config.size >= 0 /\ config.size % 8 = 0)
        /\ pc # "crashed"

\* C29: the pair a Create of jwk_okp_keypair stores is of the curve the
\* validated alg names, public_key is the public half of private_key, and
\* both carry the configured kid, use and alg.
C29_OKPPairOfConfiguredCurve ==
    (pc = "created" /\ config.rtype = "jwk_okp_keypair") =>
        /\ state.json.crv = ValueString(config.alg)
        /\ state.public_key.crv = ValueString(config.alg)
        /\ state.public_key.x = state.json.x
        /\ state.public_key.d = AbsentMember
        /\ state.json.d.type = "string"
        /\ \A doc \in {state.json, state.public_key} :
              /\ doc.kty = "OKP"
              /\ doc.use = ValueString(config.use)
              /\ doc.alg = ValueString(config.alg)
              /\ ValueString(config.kid) # "" => doc.kid = ValueString(config.kid)

\* C30: public_key ends with an error or with a document that has no k and
\* no d member and that carries none of the secret bytes of its input in any
\* member.
C30_PublicKeyDisclosesNoSecret ==
    fn.called =>
        \/ fn.error
        \/ /\ fn.result.k = AbsentMember
           /\ fn.result.d = AbsentMember
           /\ \A m \in {fn.result.k, fn.result.n, fn.result.x, fn.result.d} :
                 m.bytes # 2

C30_Witness ==
    /\ fn.called
    /\ fn.private_key.ok
    /\ fn.private_key.kty = "oct"
    /\ fn.private_key.k.type = "string"
    /\ fn.private_key.k.chars = 43
    /\ fn.private_key.n = AbsentMember
    /\ fn.private_key.x = AbsentMember
    /\ fn.private_key.d = AbsentMember
    /\ fn.error

\* C23: when the generator returns an error in Create or Update, the handler
\* ends with an error diagnostic and the stored state as it was before (none
\* after a failed Create, the previous one after a failed Update), and no
\* Create or Update is enabled afterwards: the generation is not tried again.
C23_GenerationFailureKeepsState ==
    [][/\ (pc = "validated" /\ pc' = "failed") =>
            (HasError(diags') /\ ~HasError(diags) /\ state' = state)
       /\ (pc = "validated" /\ pc' \in {"created", "updated"}) =>
            (~HasError(diags') /\ state'.exists)
       /\ pc # "failed"]_vars

C23_Witness ==
    /\ pc = "failed"
    /\ config.rtype = "jwk_oct_key"
    /\ HasSummary(diags, "error", "Symmetric Key Generation Failed")
    /\ state.exists
    /\ state.size # config.size

\* C25: whenever the keyset has a state, after any sequence of Create and
\* Update, failed ones included, its json is the key set document of the
\* keys list in the same state: as many elements, the i-th the i-th key.
C25_KeysetJSONMatchesKeys ==
    ksState.exists =>
        /\ IsKeysetDocument(ksState.json)
        /\ LET elems == KeysetElements(ksState.json)
           IN  /\ Len(elems) = Len(ksState.keys)
               /\ \A i \in 1..Len(ksState.keys) :
                     /\ ValidJSON(ksState.keys[i])
                     /\ Document(elems[i]) = Document(ksState.keys[i])

C25_Witness ==
    /\ ksPc = "failed"
    /\ HasError(ksDiags)
    /\ ksState.exists
    /\ Len(ksState.keys) = 2
    /\ Len(ksPlan) = 3
    /\ ksState.keys[1] # ksState.keys[2]

\* C28: importing the json that a Create of jwk_oct_key has stored succeeds
\* and yields the configured kid, use, alg and size, the key having size/8
\* bytes.
C28_CreateImportRoundTrip ==
    (pc \in {"imported", "import_failed"} /\ config.rtype = "jwk_oct_key") =>
        /\ pc = "imported"
        /\ DecodeString(importID.k).nbytes * 8 = config.size
        /\ state.kid = ValueString(config.kid)
        /\ state.use = ValueString(config.use)
        /\ state.alg = ValueString(config.alg)
        /\ state.size = config.size

\* C28 (amended): the import of a created jwk_oct_key succeeds exactly when
\* the configured kid is not empty; it then yields the configured kid and
\* use, as alg the configured one or "" when none was configured, and as
\* size the configured one unless alg is none or dir, whose key has one byte
\* and is imported with size 8.
C28_CreateImportRoundTripUnlessOneByteKey ==
    (pc \in {"imported", "import_failed"} /\ config.rtype = "jwk_oct_key") =>
        LET oneByte == ValueString(config.alg) \in {"none", "dir"}
        IN  /\ pc = "imported" <=> ValueString(config.kid) # ""
            /\ pc = "import_failed" =>
                  (HasSummary(diags, "error", "Missing Key ID") /\ ~state.exists)
            /\ DecodeString(importID.k).nbytes =
                  (IF oneByte THEN 1 ELSE config.size \div 8)
            /\ pc = "imported" =>
                  /\ state.kid = ValueString(config.kid)
                  /\ state.use = ValueString(config.use)
                  /\ state.alg = ValueString(config.alg)
                  /\ state.size = (IF oneByte THEN 8 ELSE config.size)
                  /\ state.json = importID

C28_Witness ==
    /\ pc = "imported"
    /\ config.rtype = "jwk_oct_key"
    /\ config.alg = "dir"
    /\ config.size = 256
    /\ state.size = 8

\* C24: a step that changes the state of the key resource leaves the state
\* of the keyset as it is, and a step that changes the state of the keyset
\* is a Create or Update of the keyset and leaves the key resource as it is:
\* the json of a keyset built from a key stays what it was when the key is
\* updated, deleted or imported, until the keyset itself is applied again.
C24_NoCrossResourceEffect ==
    [][/\ (<<pc, config, diags, state>> # <<pc', config', diags', state'>>) =>
            (ksState' = ksState /\ ksPlan' = ksPlan /\ ksDiags' = ksDiags)
       /\ (ksState' # ksState) =>
            /\ ksPc = "planned"
            /\ ksPc' = "applied"
            /\ <<pc', config', diags', state'>> = <<pc, config, diags, state>>]_vars

C24_Witness ==
    /\ pc = "updated"
    /\ state.exists
    /\ ksPc = "applied"
    /\ ksState.exists
    /\ Len(ksState.keys) = 1
    /\ ksState.keys[1] # KeyText(state.json)
    /\ ksState.json = <<"{", "keys:", "[", "{", "kid:k1", ",", "k:1", "}", "]", "}">>

====
